---- MODULE Spec2Model ----
(***************************************************************************)
(* A model of nrrdtime (src/nrrdtime/nrrdtime.py): the entry store, the    *)
(* status state machine (start / pause / resume / stop / modify), the     *)
(* search evaluator, and the duration and rounding computations of class  *)
(* TimeEntries.                                                            *)
(*                                                                         *)
(* Python strings are sequences of one-character strings, so that          *)
(* lower(), split(), strip() and the `in' substring test are computed.     *)
(* A falsy string (None or '') is the empty sequence, a falsy list (None   *)
(* or []) is the empty sequence: the code only tests their truth value.    *)
(* A timestamp is a number of ticks, SubSec ticks to the second; None is   *)
(* the timestamp -1.                                                       *)
(***************************************************************************)
EXTENDS Integers, Sequences, FiniteSets, TLC

VARIABLES
    files,             \* the data directory: sequence of [fullpath, entry]
    time_entries,      \* self.time_entries, in load order
    time_entry_files,  \* self.time_entry_files, aligned with time_entries
    interactive,       \* self.interactive
    now,               \* the wall clock, in ticks
    outcome,           \* what the last command did
    term,              \* the argument of the last search or computation
    result,            \* what the last search or computation returned
    rounding_method,   \* self.rounding_method
    rounding_interval  \* self.rounding_interval

vars == <<files, time_entries, time_entry_files, interactive, now, outcome,
          term, result, rounding_method, rounding_interval>>

----------------------------------------------------------------------------
(* Bounds of the model.                                                    *)

MaxSegments == 2
MaxTicks == 1
SubSec == 2
MaxHours == 1
DirSize == 3

----------------------------------------------------------------------------
(* Python values.                                                          *)

None == -1

UpperChars ==
    <<"A","B","C","D","E","F","G","H","I","J","K","L","M",
      "N","O","P","Q","R","S","T","U","V","W","X","Y","Z">>

LowerChars ==
    <<"a","b","c","d","e","f","g","h","i","j","k","l","m",
      "n","o","p","q","r","s","t","u","v","w","x","y","z">>

Digits == <<"0","1","2","3","4","5","6","7","8","9">>

\* the characters of the model in code point order
CodeOrder ==
    <<" ", "%", "+", ",", "-">> \o Digits \o <<":", "=">> \o UpperChars
        \o LowerChars \o <<"~">>

IndexOf(c, seq) == CHOOSE i \in DOMAIN seq : seq[i] = c

Ord(c) == IndexOf(c, CodeOrder)

\* str.lower(), one character
LowerChar(c) ==
    IF \E i \in DOMAIN UpperChars : UpperChars[i] = c
    THEN LowerChars[IndexOf(c, UpperChars)]
    ELSE c

\* str.lower()
Lower(s) == [i \in DOMAIN s |-> LowerChar(s[i])]

\* Python `sub in s' on strings
Contains(sub, s) ==
    \E i \in 1..(Len(s) - Len(sub) + 1) : SubSeq(s, i, i + Len(sub) - 1) = sub

\* Python `x in list'
InList(x, list) == \E i \in DOMAIN list : list[i] = x

StartsWith(s, c) == Len(s) > 0 /\ s[1] = c

EndsWith(s, c) == Len(s) > 0 /\ s[Len(s)] = c

RECURSIVE Split(_, _)
\* str.split(sep) for a one-character separator
Split(s, sep) ==
    IF ~InList(sep, s) THEN <<s>>
    ELSE LET i == CHOOSE k \in DOMAIN s :
                      s[k] = sep /\ \A j \in 1..(k - 1) : s[j] # sep
         IN  <<SubSeq(s, 1, i - 1)>> \o Split(SubSeq(s, i + 1, Len(s)), sep)

RECURSIVE Strip(_)
\* str.strip()
Strip(s) ==
    IF StartsWith(s, " ") THEN Strip(Tail(s))
    ELSE IF EndsWith(s, " ") THEN Strip(SubSeq(s, 1, Len(s) - 1))
    ELSE s

RECURSIVE Remove(_, _)
\* str.replace(c, "")
Remove(s, c) ==
    IF s = <<>> THEN <<>>
    ELSE IF Head(s) = c THEN Remove(Tail(s), c)
    ELSE <<Head(s)>> \o Remove(Tail(s), c)

RECURSIVE StrLess(_, _)
\* Python `a < b' on strings
StrLess(a, b) ==
    IF b = <<>> THEN FALSE
    ELSE IF a = <<>> THEN TRUE
    ELSE IF Head(a) # Head(b) THEN Ord(Head(a)) < Ord(Head(b))
    ELSE StrLess(Tail(a), Tail(b))

RECURSIVE Insert(_, _)
Insert(x, sorted) ==
    IF sorted = <<>> THEN <<x>>
    ELSE IF StrLess(x, Head(sorted)) THEN <<x>> \o sorted
    ELSE <<Head(sorted)>> \o Insert(x, Tail(sorted))

RECURSIVE Sort(_)
\* list.sort() on a list of strings (stable insertion)
Sort(list) ==
    IF list = <<>> THEN <<>>
    ELSE Insert(list[Len(list)], Sort(SubSeq(list, 1, Len(list) - 1)))

RECURSIVE ListRemove(_, _)
\* list.remove(x): drops the first element equal to x
ListRemove(list, x) ==
    IF list = <<>> THEN <<>>
    ELSE IF Head(list) = x THEN Tail(list)
    ELSE <<Head(list)>> \o ListRemove(Tail(list), x)

----------------------------------------------------------------------------
(* Timestamps.  A timestamp counts ticks since the model's day 0; day 0,   *)
(* 00:00:00 stands for the search origin 1969-01-01.  Timestamp text is    *)
(* "D", "D HH:MM" or "D HH:MM:SS" with a one-digit day D.                  *)

Second == SubSec
Minute == 60 * Second
Hour == 60 * Minute
Day == 24 * Hour

MkTime(d, h, m, s) == d * Day + h * Hour + m * Minute + s * Second

HourOf(t) == (t % Day) \div Hour
MinuteOf(t) == (t % Hour) \div Minute
SecondOf(t) == (t % Minute) \div Second

Digit(c) == IndexOf(c, Digits) - 1

IsDigit(c) == InList(c, Digits)

TwoDigits(n) == <<Digits[(n \div 10) + 1], Digits[(n % 10) + 1]>>

\* datetime.strftime("%Y-%m-%d %H:%M:%S"): the sub-second part is dropped
Strftime(t) ==
    <<Digits[(t \div Day) + 1], " ">> \o TwoDigits(HourOf(t)) \o <<":">>
        \o TwoDigits(MinuteOf(t)) \o <<":">> \o TwoDigits(SecondOf(t))

Num2(s, i) == 10 * Digit(s[i]) + Digit(s[i + 1])

WellFormedHM(s) ==
    /\ IsDigit(s[1]) /\ s[2] = " "
    /\ IsDigit(s[3]) /\ IsDigit(s[4]) /\ s[5] = ":"
    /\ IsDigit(s[6]) /\ IsDigit(s[7])
    /\ Num2(s, 3) < 24 /\ Num2(s, 6) < 60

\* _datetime_or_none on a string: dateutil's parse, or None
_datetime_or_none(timestr) ==
    IF Len(timestr) = 1 /\ IsDigit(timestr[1])
    THEN MkTime(Digit(timestr[1]), 0, 0, 0)
    ELSE IF Len(timestr) = 7 /\ WellFormedHM(timestr)
    THEN MkTime(Digit(timestr[1]), Num2(timestr, 3), Num2(timestr, 6), 0)
    ELSE IF /\ Len(timestr) = 10 /\ WellFormedHM(SubSeq(timestr, 1, 7))
            /\ timestr[8] = ":" /\ IsDigit(timestr[9]) /\ IsDigit(timestr[10])
            /\ Num2(timestr, 9) < 60
    THEN MkTime(Digit(timestr[1]), Num2(timestr, 3), Num2(timestr, 6),
                Num2(timestr, 9))
    ELSE None

----------------------------------------------------------------------------
(* Entries and the entry files.                                            *)

S_running == <<"r","u","n","n","i","n","g">>
S_paused == <<"p","a","u","s","e","d">>
S_stopped == <<"s","t","o","p","p","e","d">>

\* a stopwatch segment: a dict with 'start' and, once closed, 'stop'
Segment(start, stop) == [start |-> start, stop |-> stop]

\* the "entry" mapping of one entry file
Entry(uid, created, updated, started, completed, alias, status, description, project, tags, stopwatch, notes) ==
    [uid |-> uid, created |-> created, updated |-> updated,
     started |-> started, completed |-> completed, alias |-> alias,
     status |-> status, description |-> description, project |-> project,
     tags |-> tags, stopwatch |-> stopwatch, notes |-> notes]

\* one file of the data directory; kind is "entry" (a mapping with an
\* "entry" key), "nodata" (a mapping without it), "empty" (no document)
\* or "unreadable" (open or YAML failure)
File(fullpath, kind, entry) ==
    [fullpath |-> fullpath, kind |-> kind, entry |-> entry]

NoEntry ==
    Entry(<<>>, None, None, None, None, <<>>, <<>>, <<>>, <<>>, <<>>, <<>>,
          <<>>)

\* a report of _error_pass during a scan: what, for which file, and the
\* earlier file of a duplicate (<<>> when there is none)
Report(kind, fullpath, dup) ==
    [kind |-> kind, fullpath |-> fullpath, dup |-> dup]

\* the file the scan recorded for the entry of acc that satisfies Test
RecordedFile(acc, Test(_)) ==
    acc.this_entry_files[CHOOSE i \in DOMAIN acc.this_entries :
                             Test(acc.this_entries[i])]

\* add_entry looking at the uid alone
AddEntry_uid_only(dupid, dupalias) == ~dupid

\* add_entry: neither the uid nor the alias was recorded before
AddEntry(dupid, dupalias) == ~dupid /\ ~dupalias

\* one pass of the loop of _parse_files over a directory entry
ParseStep(acc, f) ==
    IF f.kind = "unreadable"
    THEN [acc EXCEPT !.errors = Append(@, Report("unreadable", f.fullpath,
                                                 <<>>))]
    ELSE IF f.kind = "empty" THEN acc
    ELSE IF f.kind = "nodata"
    THEN [acc EXCEPT !.errors = Append(@, Report("nodata", f.fullpath,
                                                 <<>>))]
    ELSE
      LET uid == f.entry.uid
          alias == f.entry.alias
          dupid == uid # <<>> /\ \E i \in DOMAIN acc.this_entries :
                                     acc.this_entries[i].uid = uid
          dupalias == alias # <<>> /\ \E i \in DOMAIN acc.this_entries :
                                          acc.this_entries[i].alias = alias
          e1 == IF dupid
                THEN Append(acc.errors,
                            Report("duplicate uid", f.fullpath,
                                   RecordedFile(acc, LAMBDA e : e.uid = uid)))
                ELSE acc.errors
          e2 == IF dupalias
                THEN Append(e1,
                            Report("duplicate alias", f.fullpath,
                                   RecordedFile(acc,
                                                LAMBDA e : e.alias = alias)))
                ELSE e1
          add_entry == AddEntry(dupid, dupalias)
      IN  IF ~add_entry THEN [acc EXCEPT !.errors = e2]
          ELSE IF alias # <<>> /\ uid # <<>>
          THEN [this_entries |-> Append(acc.this_entries, f.entry),
                this_entry_files |-> Append(acc.this_entry_files, f.fullpath),
                errors |-> e2]
          ELSE [acc EXCEPT !.errors = Append(e2, Report("incomplete",
                                                        f.fullpath, <<>>))]

RECURSIVE ParseLoop(_, _)
ParseLoop(acc, dir) ==
    IF dir = <<>> THEN acc
    ELSE ParseLoop(ParseStep(acc, Head(dir)), Tail(dir))

\* _parse_files: the entries, their files and the error reports of one scan
_parse_files(dir) ==
    ParseLoop([this_entries |-> <<>>, this_entry_files |-> <<>>,
               errors |-> <<>>], dir)

\* self.time_entries[uid] in the entries te
Stored(te, uid) == te[CHOOSE i \in DOMAIN te : te[i].uid = uid]

HasUid(te, uid) == \E i \in DOMAIN te : te[i].uid = uid

\* _parse_time_entry: alias, project and status are lower-cased
_parse_time_entry(te, uid) ==
    LET e == Stored(te, uid)
    IN  [e EXCEPT !.alias = Lower(e.alias), !.project = Lower(e.project),
                  !.status = Lower(e.status)]

\* _get_aliases
_get_aliases ==
    {Lower(time_entries[i].alias) :
         i \in {j \in DOMAIN time_entries : time_entries[j].alias # <<>>}}

\* _uid_from_alias: the uid of the last entry whose stored alias equals the
\* lower-cased alias, or the falsy <<>>
_uid_from_alias(alias) ==
    LET hits == {i \in DOMAIN time_entries :
                     /\ time_entries[i].alias # <<>>
                     /\ time_entries[i].alias = Lower(alias)}
    IN  IF hits = {} THEN <<>>
        ELSE time_entries[CHOOSE i \in hits : \A j \in hits : j <= i].uid

\* _is_paused trusting the status field alone
_is_paused_status_only(uid) ==
    _parse_time_entry(time_entries, uid).status = S_paused

\* _is_paused looking at the segments alone
_is_paused_segments_only(uid) ==
    LET stopwatch == _parse_time_entry(time_entries, uid).stopwatch
    IN  \A i \in DOMAIN stopwatch :
            stopwatch[i].start # None /\ stopwatch[i].stop # None

\* _is_paused
_is_paused(uid) ==
    LET time_entry == _parse_time_entry(time_entries, uid)
        stopwatch == time_entry.stopwatch
    IN  /\ time_entry.status = S_paused
        /\ \A i \in DOMAIN stopwatch :
               stopwatch[i].start # None /\ stopwatch[i].stop # None

\* _is_running
_is_running(uid) ==
    LET time_entry == _parse_time_entry(time_entries, uid)
        stopwatch == time_entry.stopwatch
    IN  /\ time_entry.status = S_running
        /\ ~\E i \in DOMAIN stopwatch :
               /\ stopwatch[i] = stopwatch[Len(stopwatch)]
               /\ stopwatch[i].start # None
               /\ stopwatch[i].stop # None

\* the entries te with the stopwatch list of uid mutated in place
SetStopwatch(te, uid, stopwatch) ==
    [i \in DOMAIN te |->
        IF te[i].uid = uid THEN [te[i] EXCEPT !.stopwatch = stopwatch]
        ELSE te[i]]

\* _write_yaml_file: replaces the file of that name or creates it
_write_yaml_file(data, filename) ==
    IF \E i \in DOMAIN files : files[i].fullpath = filename
    THEN [i \in DOMAIN files |->
             IF files[i].fullpath = filename
             THEN File(filename, "entry", data)
             ELSE files[i]]
    ELSE Append(files, File(filename, "entry", data))

\* self.time_entry_files.get(uid)
FileOf(uid) ==
    time_entry_files[CHOOSE i \in DOMAIN time_entries :
                         time_entries[i].uid = uid]

----------------------------------------------------------------------------
(* modify.                                                                 *)

\* the keyword arguments of modify; a falsy argument is <<>>
NoArgs ==
    [new_completed |-> <<>>, new_description |-> <<>>, new_notes |-> <<>>,
     new_project |-> <<>>, new_started |-> <<>>, new_status |-> <<>>,
     new_tags |-> <<>>, del_time |-> <<>>, new_stopwatch |-> <<>>]

RECURSIVE ParseDigits(_, _)
ParseDigits(s, acc) ==
    IF s = <<>> THEN acc ELSE ParseDigits(Tail(s), 10 * acc + Digit(Head(s)))

\* int(entry) inside _remove_items; None stands for ValueError
ParseInt(s) ==
    IF s # <<>> /\ \A i \in DOMAIN s : IsDigit(s[i])
    THEN ParseDigits(s, 0)
    ELSE None

RECURSIVE RemItems(_, _)
\* the first loop of _remove_items: the items the indexes name
RemItems(deletions, source) ==
    IF deletions = <<>> THEN <<>>
    ELSE LET entry == ParseInt(Head(deletions))
         IN  (IF entry # None /\ 1 <= entry /\ entry <= Len(source)
              THEN <<source[entry]>> ELSE <<>>)
                 \o RemItems(Tail(deletions), source)

RECURSIVE RemoveAll(_, _)
\* the second loop of _remove_items; list.remove raises ValueError when the
\* item is gone
RemoveAll(rem_items, source) ==
    IF rem_items = <<>> THEN [crash |-> FALSE, source |-> source]
    ELSE IF ~InList(Head(rem_items), source)
    THEN [crash |-> TRUE, source |-> source]
    ELSE RemoveAll(Tail(rem_items), ListRemove(source, Head(rem_items)))

\* modify._remove_items
_remove_items(deletions, source) ==
    RemoveAll(RemItems(deletions, source), source)

\* _new_or_current dropping the new timestamp
_new_or_current_kept(new, current) == current

\* modify._new_or_current
_new_or_current(new, current) ==
    IF new # <<>> /\ _datetime_or_none(new) # None
    THEN _datetime_or_none(new)
    ELSE current

RECURSIVE AddTags(_, _)
AddTags(tags, new_tags) ==
    IF new_tags = <<>> THEN tags
    ELSE AddTags(IF InList(Head(new_tags), tags) THEN tags
                 ELSE Append(tags, Head(new_tags)), Tail(new_tags))

RECURSIVE DropTags(_, _)
DropTags(tags, new_tags) ==
    IF new_tags = <<>> THEN tags
    ELSE DropTags(ListRemove(tags, Head(new_tags)), Tail(new_tags))

\* the tags branch of modify
ModifyTags(new_tags, current) ==
    IF new_tags = <<>> THEN current
    ELSE LET lowered == Lower(new_tags)
         IN  IF StartsWith(lowered, "+")
             THEN Sort(AddTags(current, Split(Tail(lowered), ",")))
             ELSE IF StartsWith(lowered, "~")
             THEN Sort(DropTags(current, Split(Tail(lowered), ",")))
             ELSE Sort(Split(lowered, ","))

\* the status branch of modify dropping the new status
ModifiedStatus_kept(new_status, current) == current

\* the status branch of modify
ModifiedStatus(new_status, current) ==
    IF new_status # <<>> THEN Lower(new_status) ELSE current

\* the notes branch of modify
ModifyNotes(new_notes, current) ==
    IF new_notes = <<>> THEN current
    ELSE IF new_notes \in {<<" ">>, <<" ", "\n">>, <<"\n">>} THEN <<>>
    ELSE new_notes

\* modify, for an alias that _uid_from_alias finds, reading the entries te:
\* the record it writes, or the crash of _remove_items
modify(te, alias, args) ==
    LET uid == _uid_from_alias(alias)
        time_entry == _parse_time_entry(te, uid)
        u_started == IF args.new_started # <<>>
                     THEN _new_or_current(args.new_started,
                                          time_entry.started)
                     ELSE time_entry.started
        u_completed == IF args.new_completed # <<>>
                       THEN _new_or_current(args.new_completed,
                                            time_entry.completed)
                       ELSE time_entry.completed
        u_description == IF args.new_description # <<>>
                         THEN args.new_description
                         ELSE time_entry.description
        u_project == IF args.new_project # <<>> THEN args.new_project
                     ELSE time_entry.project
        stopwatch0 == IF args.new_stopwatch # <<>> THEN args.new_stopwatch
                      ELSE time_entry.stopwatch
        removal == IF args.del_time # <<>> /\ stopwatch0 # <<>>
                   THEN _remove_items(args.del_time, stopwatch0)
                   ELSE [crash |-> FALSE, source |-> stopwatch0]
        u_stopwatch == removal.source
        u_tags == ModifyTags(args.new_tags, time_entry.tags)
        u_status == ModifiedStatus(args.new_status, time_entry.status)
        u_notes == ModifyNotes(args.new_notes, time_entry.notes)
    IN  [crash |-> removal.crash,
         filename |-> FileOf(uid),
         stopwatch |-> u_stopwatch,
         data |-> Entry(uid, time_entry.created, now, u_started, u_completed,
                        Lower(alias), u_status, u_description, u_project,
                        u_tags, u_stopwatch, u_notes)]

----------------------------------------------------------------------------
(* The commands.  A command of a non-interactive invocation runs in its    *)
(* own process, which loads the files when it is constructed: after such a *)
(* command the memory is the load of the next process.  In the shell the   *)
(* memory is kept until refresh.  An uncaught exception ends the process.  *)

DEFAULT_ROUNDING_METHOD == None
DEFAULT_ROUNDING_INTERVAL == 1

T0 == MkTime(1, 10, 0, 0)

\* no search has run
NoResult == [error |-> FALSE, uids |-> <<>>]

Uid(n) == <<"u", Digits[n + 1]>>

Alias(n) == <<LowerChars[n], LowerChars[n], LowerChars[n], LowerChars[n]>>

\* the aliases random.choice is taken to produce
AliasPool == {Alias(1)}

\* the uuids uuid.uuid4 is taken to produce, in this order
UidPool == <<Uid(1)>>

\* the aliases the commands are given
CmdAliases == {<<"A", "a", "a", "a">>, Alias(2)}

\* the first uuid no file carries
NewUid == UidPool[Len(files) + 1]

\* what a command did: the command, the uid it located (<<>> when none)
\* and how it ended
Done(op, uid, res) == [op |-> op, uid |-> uid, res |-> res]

\* the command is over: newfiles on disk, te in the memory of the shell
Commit(newfiles, te, out) ==
    /\ files' = newfiles
    /\ LET loaded == _parse_files(newfiles)
       IN  /\ time_entries' = IF interactive THEN te
                              ELSE loaded.this_entries
           /\ time_entry_files' = IF interactive THEN time_entry_files
                                  ELSE loaded.this_entry_files
    /\ outcome' = out
    /\ UNCHANGED <<interactive, now, term, result,
                   rounding_method, rounding_interval>>

\* an error path that goes on to remove the first entry file
Rejected_removing(out) == Commit(<<>>, time_entries, out)

\* _handle_error: _error_pass in the shell, _error_exit otherwise
Rejected(out) == Commit(files, time_entries, out)

\* an uncaught exception: the process ends, the next one loads the files
Crash(out) ==
    /\ time_entries' = _parse_files(files).this_entries
    /\ time_entry_files' = _parse_files(files).this_entry_files
    /\ outcome' = out
    /\ UNCHANGED <<files, interactive, now, term, result,
                   rounding_method, rounding_interval>>

\* _gen_alias: a random alias that is not among the loaded aliases
_gen_alias == {alias \in AliasPool : alias \notin _get_aliases}

\* start
start(description, project, tags) ==
    /\ Len(files) < Len(UidPool)
    /\ \E alias \in _gen_alias :
         LET uid == NewUid
             u_description ==
                 IF description # <<>> THEN description
                 ELSE <<"T","i","m","e"," ","e","n","t","r","y"," ">>
                          \o Strftime(now)
             u_tags == IF tags # <<>> THEN Sort(Split(Lower(tags), ","))
                       ELSE <<>>
             data == Entry(uid, now, now, now, None, alias, S_running,
                           u_description, project, u_tags,
                           <<Segment(now, None)>>, <<>>)
         IN  Commit(_write_yaml_file(data, uid), time_entries,
                    Done("start", uid, "ok"))

\* pause
pause(alias) ==
    LET uid == _uid_from_alias(alias)
    IN  IF uid = <<>> THEN Rejected(Done("pause", uid, "not found"))
        ELSE IF _is_running(uid)
        THEN LET stopwatch == _parse_time_entry(time_entries, uid).stopwatch
             IN  IF stopwatch = <<>> \/ stopwatch[Len(stopwatch)].start = None
                 THEN Crash(Done("pause", uid, "crash"))
                 ELSE
                   LET new_stopwatch ==
                           Append(SubSeq(stopwatch, 1, Len(stopwatch) - 1),
                                  Segment(stopwatch[Len(stopwatch)].start,
                                          now))
                       te == SetStopwatch(time_entries, uid, new_stopwatch)
                       m == modify(te, alias,
                                   [NoArgs EXCEPT
                                       !.new_status = S_paused,
                                       !.new_stopwatch = new_stopwatch])
                   IN  Commit(_write_yaml_file(m.data, m.filename), te,
                              Done("pause", uid, "ok"))
        ELSE Rejected(Done("pause", uid, "is not running"))

\* resume
resume(alias) ==
    LET uid == _uid_from_alias(alias)
    IN  IF uid = <<>> THEN Rejected(Done("resume", uid, "not found"))
        ELSE IF _is_paused(uid)
        THEN LET stopwatch == _parse_time_entry(time_entries, uid).stopwatch
                 new_stopwatch == Append(stopwatch, Segment(now, None))
                 te == SetStopwatch(time_entries, uid, new_stopwatch)
                 m == modify(te, alias,
                             [NoArgs EXCEPT !.new_status = S_running,
                                            !.new_stopwatch = new_stopwatch])
             IN  /\ Len(stopwatch) < MaxSegments
                 /\ Commit(_write_yaml_file(m.data, m.filename), te,
                           Done("resume", uid, "ok"))
        ELSE Rejected(Done("resume", uid, "is not paused"))

\* stop
stop(alias) ==
    LET uid == _uid_from_alias(alias)
    IN  IF uid = <<>> THEN Rejected(Done("stop", uid, "not found"))
        ELSE IF _is_running(uid)
        THEN LET stopwatch == _parse_time_entry(time_entries, uid).stopwatch
             IN  IF stopwatch = <<>> \/ stopwatch[Len(stopwatch)].start = None
                 THEN Crash(Done("stop", uid, "crash"))
                 ELSE
                   LET new_stopwatch ==
                           Append(SubSeq(stopwatch, 1, Len(stopwatch) - 1),
                                  Segment(stopwatch[Len(stopwatch)].start,
                                          now))
                       te == SetStopwatch(time_entries, uid, new_stopwatch)
                       m == modify(te, alias,
                                   [NoArgs EXCEPT
                                       !.new_status = S_stopped,
                                       !.new_completed = Strftime(now),
                                       !.new_stopwatch = new_stopwatch])
                   IN  Commit(_write_yaml_file(m.data, m.filename), te,
                              Done("stop", uid, "ok"))
        ELSE Rejected(Done("stop", uid, "is not running"))

\* the modify command with the keyword arguments args
CmdModify(alias, args) ==
    LET uid == _uid_from_alias(alias)
    IN  IF uid = <<>> THEN Rejected(Done("modify", uid, "not found"))
        ELSE LET m == modify(time_entries, alias, args)
             IN  IF m.crash THEN Crash(Done("modify", uid, "crash"))
                 ELSE Commit(_write_yaml_file(m.data, m.filename),
                             SetStopwatch(time_entries, uid, m.stopwatch),
                             Done("modify", uid, "ok"))

\* refresh: do_refresh of the shell and FSHandler.on_any_event
refresh ==
    /\ interactive
    /\ time_entries' = _parse_files(files).this_entries
    /\ time_entry_files' = _parse_files(files).this_entry_files
    /\ outcome' = Done("idle", <<>>, "ok")
    /\ UNCHANGED <<files, interactive, now, term, result,
                   rounding_method, rounding_interval>>

\* main: a new process, the shell or a single command
Launch(shell) ==
    /\ interactive # shell
    /\ interactive' = shell
    /\ time_entries' = _parse_files(files).this_entries
    /\ time_entry_files' = _parse_files(files).this_entry_files
    /\ outcome' = Done("idle", <<>>, "ok")
    /\ UNCHANGED <<files, now, term, result,
                   rounding_method, rounding_interval>>

\* the clock advances
Tick ==
    /\ now < T0 + MaxTicks
    /\ now' = now + 1
    /\ outcome' = Done("idle", <<>>, "ok")
    /\ UNCHANGED <<files, time_entries, time_entry_files, interactive, term, result,
                   rounding_method, rounding_interval>>

\* the arguments the modify command is given: a status or --del-time
StatusArgs ==
    {[NoArgs EXCEPT !.new_status = st] :
         st \in {S_running, S_paused, S_stopped}}

DelTimeArgs ==
    {[NoArgs EXCEPT !.del_time = d] :
         d \in {<<<<"1">>>>, <<<<"2">>>>, <<<<"1">>, <<"1">>>>,
                <<<<"0">>, <<"x">>>>}}

Init ==
    /\ files = <<>>
    /\ time_entries = <<>>
    /\ time_entry_files = <<>>
    /\ interactive \in BOOLEAN
    /\ now = T0
    /\ outcome = Done("idle", <<>>, "ok")
    /\ term = <<>>
    /\ result = NoResult
    /\ rounding_method = DEFAULT_ROUNDING_METHOD
    /\ rounding_interval = DEFAULT_ROUNDING_INTERVAL

Start == start(<<>>, <<>>, <<>>)

Pause == \E alias \in CmdAliases : pause(alias)

Resume == \E alias \in CmdAliases : resume(alias)

Stop == \E alias \in CmdAliases : stop(alias)

ModifyStatus == \E alias \in CmdAliases, args \in StatusArgs :
                    CmdModify(alias, args)

\* --del-time takes several indices, 'delete time' of the shell takes one
ModifyDelTime == \E alias \in CmdAliases, args \in DelTimeArgs :
                     /\ interactive => Len(args.del_time) = 1
                     /\ CmdModify(alias, args)

Relaunch == \E shell \in BOOLEAN : Launch(shell)

\* start, pause, resume and stop alone
NextTransitions ==
    \/ Start
    \/ Pause
    \/ Resume
    \/ Stop
    \/ refresh
    \/ Relaunch
    \/ Tick

Next ==
    \/ NextTransitions
    \/ ModifyStatus
    \/ ModifyDelTime

Spec == Init /\ [][Next]_vars

SpecTransitions == Init /\ [][NextTransitions]_vars

TypeOK ==
    /\ Len(files) <= Len(UidPool)
    /\ Len(time_entries) <= Len(files)
    /\ now \in T0..(T0 + MaxTicks)

----------------------------------------------------------------------------
(* _perform_search.                                                        *)

K_uid == <<"u", "i", "d">>
K_description == <<"d", "e", "s", "c", "r", "i", "p", "t", "i", "o", "n">>
K_project == <<"p", "r", "o", "j", "e", "c", "t">>
K_alias == <<"a", "l", "i", "a", "s">>
K_tags == <<"t", "a", "g", "s">>
K_status == <<"s", "t", "a", "t", "u", "s">>
K_started == <<"s", "t", "a", "r", "t", "e", "d">>
K_completed == <<"c", "o", "m", "p", "l", "e", "t", "e", "d">>
K_notes == <<"n", "o", "t", "e", "s">>

\* valid_criteria
valid_criteria ==
    <<K_uid \o <<"=">>, K_description \o <<"=">>, K_project \o <<"=">>,
      K_alias \o <<"=">>, K_tags \o <<"=">>, K_status \o <<"=">>,
      K_started \o <<"=">>, K_completed \o <<"=">>, K_notes \o <<"=">>>>

\* the origin of _parse_dt_range, 1969-01-01
origin == 0

\* end.replace(hour=23, minute=59, second=59)
EndOfDay(t) == t - (t % Day) + MkTime(0, 23, 59, 59) + (t % Second)

\* _perform_search._parse_dt_range
_parse_dt_range(timestr) ==
    LET parsed ==
            IF StartsWith(timestr, "~")
            THEN [begin |-> origin,
                  end |-> _datetime_or_none(Remove(timestr, "~"))]
            ELSE IF EndsWith(timestr, "~")
            THEN [begin |-> _datetime_or_none(Remove(timestr, "~")),
                  end |-> now]
            ELSE IF InList("~", timestr)
            THEN [begin |-> _datetime_or_none(Strip(Split(timestr, "~")[1])),
                  end |-> _datetime_or_none(Strip(Split(timestr, "~")[2]))]
            ELSE [begin |-> _datetime_or_none(timestr),
                  end |-> _datetime_or_none(timestr)]
        begin == IF parsed.begin = None THEN origin ELSE parsed.begin
        end == IF parsed.end = None THEN now
               ELSE IF HourOf(parsed.end) = 0 /\ MinuteOf(parsed.end) = 0
               THEN EndOfDay(parsed.end)
               ELSE parsed.end
    IN  [begin |-> begin, end |-> end]

\* begin <= t <= end for the range of a started/completed criterion
InRange(timestr, t) ==
    _parse_dt_range(timestr).begin <= t /\ t <= _parse_dt_range(timestr).end

\* the split of the term at the exclusion operator
SplitTerm(text) ==
    IF InList("%", text)
    THEN [searchterm |-> Lower(Split(text, "%")[1]),
          excludeterm |-> Lower(Split(text, "%")[2])]
    ELSE [searchterm |-> Lower(text), excludeterm |-> <<>>]

RECURSIVE ParseItems(_)
\* dict((k.strip(), v.strip()) for k, v in (item.split('=') ...)): the
\* pairs in order, or ValueError
ParseItems(items) ==
    IF items = <<>> THEN [error |-> FALSE, pairs |-> <<>>]
    ELSE LET kv == Split(Head(items), "=")
             rest == ParseItems(Tail(items))
         IN  IF Len(kv) # 2 \/ rest.error
             THEN [error |-> TRUE, pairs |-> <<>>]
             ELSE [error |-> FALSE,
                   pairs |-> <<[k |-> Strip(kv[1]), v |-> Strip(kv[2])]>>
                                 \o rest.pairs]

\* the parse of the search part (any_keyword) or of the exclude part into
\* a dict, kept as its pairs in insertion order
ParsePart(text, any_keyword) ==
    IF text = <<>> THEN [error |-> FALSE, pairs |-> <<>>]
    ELSE IF any_keyword /\ text = <<"a", "n", "y">>
    THEN [error |-> FALSE, pairs |-> <<>>]
    ELSE IF ~\E i \in DOMAIN valid_criteria : Contains(valid_criteria[i], text)
    THEN [error |-> FALSE,
          pairs |-> <<[k |-> K_description, v |-> Strip(text)]>>]
    ELSE ParseItems(Split(text, ","))

\* dict.get(key): the value of the last pair of that key, or the falsy <<>>
Get(pairs, key) ==
    LET hits == {i \in DOMAIN pairs : pairs[i].k = key}
    IN  IF hits = {} THEN <<>>
        ELSE pairs[CHOOSE i \in hits : \A j \in hits : j <= i].v

\* the characters of a string, as iterating over the string yields them
Chars(text) == [i \in DOMAIN text |-> <<text[i]>>]

\* one criterion of the search pass that treats a missing field as a match
FieldOk_vacuous(criterion, present, matches) ==
    criterion # <<>> => (~present \/ matches)

\* one criterion of the search pass: a populated criterion removes the
\* entry when the field is missing or does not match
FieldOk(criterion, present, matches) ==
    criterion # <<>> => (present /\ matches)

\* the '+' alternatives all have to be among the values
AnyOf_all(alternatives, values) ==
    \A i \in DOMAIN alternatives : InList(alternatives[i], values)

\* the '+' OR operator: some alternative is among the values
AnyOf(alternatives, values) ==
    \E i \in DOMAIN alternatives : InList(alternatives[i], values)

\* the exclude pass over one entry: remove
Excluded(exclude, uid) ==
    LET time_entry == _parse_time_entry(time_entries, uid)
        x_uid == Get(exclude, K_uid)
        x_alias == Get(exclude, K_alias)
        x_description == Get(exclude, K_description)
        x_project == Get(exclude, K_project)
        x_tags == IF Get(exclude, K_tags) # <<>>
                  THEN Split(Get(exclude, K_tags), "+") ELSE <<>>
        \* x_status is assigned the raw criterion again after the split
        x_status == Chars(Get(exclude, K_status))
        x_started == Get(exclude, K_started)
        x_completed == Get(exclude, K_completed)
        x_notes == Get(exclude, K_notes)
    IN  \/ x_uid # <<>> /\ x_uid = uid
        \/ x_alias # <<>> /\ time_entry.alias # <<>>
               /\ x_alias = time_entry.alias
        \/ x_description # <<>> /\ time_entry.description # <<>>
               /\ Contains(x_description, time_entry.description)
        \/ x_project # <<>> /\ time_entry.project # <<>>
               /\ Contains(x_project, time_entry.project)
        \/ x_tags # <<>> /\ time_entry.tags # <<>>
               /\ AnyOf(x_tags, time_entry.tags)
        \/ x_status # <<>> /\ time_entry.status # <<>>
               /\ AnyOf(x_status, <<time_entry.status>>)
        \/ x_started # <<>> /\ time_entry.started # None
               /\ InRange(x_started, time_entry.started)
        \/ x_completed # <<>> /\ time_entry.completed # None
               /\ InRange(x_completed, time_entry.completed)
        \/ x_notes # <<>> /\ time_entry.notes # <<>>
               /\ Contains(x_notes, time_entry.notes)

\* the search pass over one entry: not remove
Matched(search, uid) ==
    LET time_entry == _parse_time_entry(time_entries, uid)
        s_uid == Get(search, K_uid)
        s_alias == Get(search, K_alias)
        s_description == Get(search, K_description)
        s_project == Get(search, K_project)
        s_tags == IF Get(search, K_tags) # <<>>
                  THEN Split(Get(search, K_tags), "+") ELSE <<>>
        s_status == IF Get(search, K_status) # <<>>
                    THEN Split(Get(search, K_status), "+") ELSE <<>>
        s_started == Get(search, K_started)
        s_completed == Get(search, K_completed)
        s_notes == Lower(Get(search, K_notes))
    IN  /\ s_uid # <<>> => s_uid = uid
        /\ FieldOk(s_alias, time_entry.alias # <<>>,
                   s_alias = time_entry.alias)
        /\ FieldOk(s_description, time_entry.description # <<>>,
                   Contains(s_description, Lower(time_entry.description)))
        /\ FieldOk(s_project, time_entry.project # <<>>,
                   Contains(s_project, Lower(time_entry.project)))
        /\ FieldOk(s_tags, time_entry.tags # <<>>,
                   AnyOf(s_tags, time_entry.tags))
        /\ FieldOk(s_status, time_entry.status # <<>>,
                   AnyOf(s_status, <<time_entry.status>>))
        /\ FieldOk(s_started, time_entry.started # None,
                   InRange(s_started, time_entry.started))
        /\ FieldOk(s_completed, time_entry.completed # None,
                   InRange(s_completed, time_entry.completed))
        /\ FieldOk(s_notes, time_entry.notes # <<>>,
                   Contains(s_notes, Lower(time_entry.notes)))

\* the uids the search pass alone keeps: the exclude list is dropped
Keep_search_only(uids, search, exclude) ==
    SelectSeq(uids, LAMBDA uid : search # <<>> => Matched(search, uid))

RECURSIVE Keep(_, _, _)
\* the uids of the list, in order, that the exclude pass does not remove
\* and the search pass keeps
Keep(uids, search, exclude) ==
    IF uids = <<>> THEN <<>>
    ELSE (IF /\ ~(exclude # <<>> /\ Excluded(exclude, Head(uids)))
             /\ (search # <<>> => Matched(search, Head(uids)))
          THEN <<Head(uids)>> ELSE <<>>)
             \o Keep(Tail(uids), search, exclude)

\* _perform_search: the matching uids, or the 'invalid expression' error
_perform_search(text) ==
    LET parts == SplitTerm(text)
        search == ParsePart(parts.searchterm, TRUE)
        exclude == ParsePart(parts.excludeterm, FALSE)
    IN  IF search.error \/ exclude.error
        THEN [error |-> TRUE, uids |-> <<>>]
        ELSE [error |-> FALSE,
              uids |-> Keep([i \in DOMAIN time_entries |->
                                 time_entries[i].uid],
                            search.pairs, exclude.pairs)]

----------------------------------------------------------------------------
(* Searching a loaded store.  The entries are records as start, pause and  *)
(* stop write them (tags lower-cased and sorted), and one record an editor *)
(* has stripped of its optional fields.                                    *)

StoreSize == 2

T_foo == MkTime(1, 10, 0, 0)
T_bar == MkTime(2, 0, 0, 0)
T_baz == MkTime(2, 9, 30, 0)
T_qux == MkTime(1, 23, 59, 59)

EntryPool ==
    {Entry(Uid(1), T_foo, T_foo, T_foo, None, Alias(1), S_running,
           <<"A", "b">>, <<>>, <<<<"x">>>>, <<Segment(T_foo, None)>>, <<>>),
     Entry(Uid(2), T_foo, T_bar, T_foo, T_bar, Alias(2), S_stopped,
           <<"b">>, <<"p">>, <<<<"x">>, <<"y">>>>, <<Segment(T_foo, T_bar)>>, <<"A", "b">>),
     Entry(Uid(3), T_baz, T_baz + 1, T_baz, None, Alias(3), S_paused,
           <<"a">>, <<"p", "q">>, <<<<"y">>>>, <<Segment(T_baz, T_baz + 1)>>, <<"b">>),
     Entry(Uid(4), T_foo, T_qux, T_foo, T_qux, Alias(4), S_stopped,
           <<"b", "a">>, <<"q">>, <<>>, <<Segment(T_foo, T_qux)>>, <<>>),
     Entry(Uid(5), None, None, None, None, Alias(5), <<>>,
           <<>>, <<>>, <<>>, <<>>, <<>>)}

\* the stores: StoreSize entries of the pool in any load order
Stores ==
    {store \in [1..StoreSize -> EntryPool] :
         \A i, j \in 1..StoreSize : i # j => store[i] # store[j]}

RECURSIVE JoinWith(_, _)
\* sep.join(list)
JoinWith(list, sep) ==
    IF list = <<>> THEN <<>>
    ELSE IF Len(list) = 1 THEN Head(list)
    ELSE Head(list) \o <<sep>> \o JoinWith(Tail(list), sep)

\* the criterion field=value
Criterion(field, value) == field \o <<"=">> \o value

StatusAlternatives ==
    {<<S_running>>, <<S_paused>>, <<S_stopped>>, <<S_running, S_paused>>,
     <<<<"R", "u", "n", "n", "i", "n", "g">>, S_stopped>>}

TagAlternatives ==
    {<<<<"x">>>>, <<<<"y">>>>, <<<<"x">>, <<"y">>>>, <<<<"z">>, <<"Y">>>>, <<<<"z">>>>}

StatusCriteria ==
    {Criterion(K_status, JoinWith(alts, "+")) : alts \in StatusAlternatives}

TagsCriteria ==
    {Criterion(K_tags, JoinWith(alts, "+")) : alts \in TagAlternatives}

OtherCriteria ==
    {Criterion(K_description, <<"a">>), Criterion(K_description, <<"B">>),
     Criterion(K_project, <<"p">>), Criterion(K_notes, <<"B">>),
     Criterion(K_alias, Alias(1)), Criterion(K_uid, Uid(2)),
     Criterion(K_started, <<"1">>), Criterion(K_completed, <<"1", "~", "2">>)}

Criteria == StatusCriteria \cup TagsCriteria \cup OtherCriteria

\* the field a criterion names
FieldOf(criterion) == Split(criterion, "=")[1]

\* search terms with one populated field and with two
SingleTerms == Criteria

PairTerms ==
    {JoinWith(<<c1, c2>>, ",") :
         c1 \in Criteria,
         c2 \in {c \in StatusCriteria \cup OtherCriteria :
                     FieldOf(c) \notin {K_tags, K_uid, K_alias}}}

\* the search parts put before an exclude part
SearchParts ==
    {<<"a", "n", "y">>, <<"A", "n", "y">>, <<>>, <<"a">>, Criterion(K_status, S_stopped),
     Criterion(K_tags, <<"x", "+", "y">>)}

ExcludeParts ==
    StatusCriteria \cup TagsCriteria
        \cup {Criterion(K_description, <<"a">>), Criterion(K_project, <<"p">>)}

ExcludeTerms ==
    {JoinWith(<<search, exclude>>, "%") :
         search \in SearchParts, exclude \in ExcludeParts}

\* terms that are no criteria, and terms that do not parse
OddTerms == {<<"a", "n", "y">>, <<"b">>, <<"t", "a", "g", "s", "=", "x", ",", "y">>, <<"s", "t", "a", "t", "u", "s", "=", "a", "=", "b">>, <<"a", "n", "y", "%", "t", "a", "g", "s", "=", "x", ",", "y">>}

InitSearch ==
    /\ \E store \in Stores :
           /\ time_entries = store
           /\ files = [i \in 1..StoreSize |->
                          File(store[i].uid, "entry", store[i])]
           /\ time_entry_files = [i \in 1..StoreSize |-> store[i].uid]
    /\ interactive = FALSE
    /\ now = MkTime(3, 12, 0, 0)
    /\ outcome = Done("idle", <<>>, "ok")
    /\ term = <<>>
    /\ result = NoResult
    /\ rounding_method = DEFAULT_ROUNDING_METHOD
    /\ rounding_interval = DEFAULT_ROUNDING_INTERVAL

\* query, list and report hand a term to _perform_search; the process of
\* a single command evaluates one term
Search(text) ==
    /\ outcome.op = "idle"
    /\ term' = text
    /\ result' = _perform_search(text)
    /\ outcome' = Done("search", <<>>,
                       IF _perform_search(text).error
                       THEN "invalid expression" ELSE "ok")
    /\ UNCHANGED <<files, time_entries, time_entry_files, interactive, now,
                   rounding_method, rounding_interval>>

SearchSingle == \E text \in SingleTerms : Search(text)

SearchPair == \E text \in PairTerms : Search(text)

SearchExclude == \E text \in ExcludeTerms : Search(text)

SearchOdd == \E text \in OddTerms : Search(text)

\* terms with two exclusion operators
DoubleTerms ==
    {<<"a", "n", "y", "%", "p", "r", "o", "j", "e", "c", "t", "=", "p", "%", "q">>,
     <<"a", "n", "y", "%", "t", "a", "g", "s", "=", "x", "%", "y">>,
     <<"s", "t", "a", "t", "u", "s", "=", "s", "t", "o", "p", "p", "e", "d", "%", "p", "r", "o", "j", "e", "c", "t", "=", "q", "%", "t", "a", "g", "s", "=", "x">>}

SearchDouble == \E text \in DoubleTerms : Search(text)

\* date-range expressions: up to a date, from a date, between two dates,
\* an instant, a bare date, an instant in the first minute of a day, and
\* an explicit midnight
DateRanges ==
    {<<"~", "1">>, <<"1", "~">>, <<"1", "~", "2">>, <<"1", " ", "1", "0", ":", "0", "0">>, <<"2">>, <<"1", " ", "0", "0", ":", "0", "0", ":", "3", "0">>, <<"2", " ", "0", "0", ":", "0", "0">>}

DateTerms ==
    {Criterion(field, range) :
         field \in {K_started, K_completed}, range \in DateRanges}

SearchDates == \E text \in DateTerms : Search(text)

\* strftime("%Y-%m-%d") of the day of t
DateStr(t) == <<Digits[(t \div Day) + 1]>>

RECURSIVE InsertSorted(_, _, _)
\* where sorted() puts uid: behind the uids whose key does not follow its
\* own, so that equal keys keep their order
InsertSorted(te, uid, sorted) ==
    IF sorted = <<>> THEN <<uid>>
    ELSE IF Stored(te, uid).completed < Stored(te, Head(sorted)).completed
    THEN <<uid>> \o sorted
    ELSE <<Head(sorted)>> \o InsertSorted(te, uid, Tail(sorted))

RECURSIVE SortedByCompleted(_, _)
\* sorted(fifouids.items(), key=lambda x: x[1])
SortedByCompleted(te, entries) ==
    IF entries = <<>> THEN <<>>
    ELSE InsertSorted(te, entries[Len(entries)],
                      SortedByCompleted(te, SubSeq(entries, 1,
                                                   Len(entries) - 1)))

\* sorted() compares the keys with <, which raises TypeError when one of
\* the two is None; a list of one entry is not compared
SortRaises(te, entries) ==
    /\ Len(entries) >= 2
    /\ \E i \in DOMAIN entries : Stored(te, entries[i]).completed = None

\* _sort_entries: the uids by their 'completed' value
_sort_entries(te, entries) ==
    IF SortRaises(te, entries)
    THEN [error |-> TRUE, uids |-> <<>>]
    ELSE [error |-> FALSE, uids |-> SortedByCompleted(te, entries)]

\* the search term of a report: the views 'today' and 'yesterday' are
\* searches by completed date, any other text is the term itself
ViewTerm(text) ==
    IF Lower(text) = <<"t", "o", "d", "a", "y">>
    THEN Criterion(K_completed, DateStr(now))
    ELSE IF Lower(text) = <<"y", "e", "s", "t", "e", "r", "d", "a", "y">>
    THEN Criterion(K_completed, DateStr(now - Day))
    ELSE Lower(text)

\* report: the selected entries, sorted by 'completed' when there are any
report(text) ==
    LET selected_entries == _perform_search(ViewTerm(text)).uids
        sorted == _sort_entries(time_entries, selected_entries)
    IN  /\ outcome.op = "idle"
        /\ term' = text
        /\ result' = IF selected_entries # <<>> THEN sorted ELSE NoResult
        /\ outcome' = Done("report", <<>>,
                           IF selected_entries # <<>> /\ sorted.error
                           THEN "TypeError" ELSE "ok")
        /\ UNCHANGED <<files, time_entries, time_entry_files, interactive,
                       now, rounding_method, rounding_interval>>

ReportTerms ==
    {<<"t", "o", "d", "a", "y">>, <<"Y", "e", "s", "t", "e", "r", "d", "a", "y">>,
     <<"a", "n", "y">>, Criterion(K_status, S_stopped),
     Criterion(K_status, S_paused), Criterion(K_tags, <<"x">>),
     Criterion(K_completed, <<"~", "2">>)}

ReportTerm == \E text \in ReportTerms : report(text)

NextSearch ==
    \/ SearchSingle
    \/ SearchPair
    \/ SearchExclude
    \/ SearchOdd
    \/ SearchDouble
    \/ SearchDates
    \/ ReportTerm

SpecSearch == InitSearch /\ [][NextSearch]_vars

----------------------------------------------------------------------------
(* What the claims observe.                                                *)

Uids == {UidPool[i] : i \in DOMAIN UidPool}

HasFile(uid) == \E i \in DOMAIN files : files[i].fullpath = uid

\* the persisted record of uid
FileRec(uid) ==
    files[CHOOSE i \in DOMAIN files : files[i].fullpath = uid].entry

IsOpen(segment) == segment.stop = None

IsClosed(segment) == segment.start # None /\ segment.stop # None

LastOf(seq) == seq[Len(seq)]

\* the stopwatch with its last segment closed at t
ClosedAt(stopwatch, t) ==
    Append(SubSeq(stopwatch, 1, Len(stopwatch) - 1),
           Segment(LastOf(stopwatch).start, t))

\* status 'running' and the last segment of the stopwatch open
RunningAndOpen(e) ==
    /\ e.status = S_running
    /\ e.stopwatch # <<>>
    /\ IsOpen(LastOf(e.stopwatch))

\* status 'paused' and every segment closed
PausedAndClosed(e) ==
    /\ e.status = S_paused
    /\ \A i \in DOMAIN e.stopwatch : IsClosed(e.stopwatch[i])

\* the timestamp t at the resolution of one second
WholeSecond(t) == t - (t % Second)

----------------------------------------------------------------------------
(* The status state machine.                                               *)

\* C1: pause succeeds exactly when the located entry has status 'running'
\* and the last segment of its stopwatch is open; it then closes that
\* segment at the current timestamp and writes status 'paused'; in every
\* other case it fails with 'is not running'.
C1_PauseExactlyWhenRunning ==
    [][\A uid \in Uids :
          (outcome'.op = "pause" /\ outcome'.uid = uid) =>
              LET e == _parse_time_entry(time_entries, uid)
              IN  IF RunningAndOpen(e)
                  THEN /\ outcome'.res = "ok"
                       /\ FileRec(uid)'.status = S_paused
                       /\ FileRec(uid)'.stopwatch = ClosedAt(e.stopwatch, now)
                  ELSE outcome'.res = "is not running"]_vars

\* C2: resume succeeds exactly when the located entry has status 'paused'
\* and every segment has a start and a stop; it then appends one open
\* segment starting now and writes status 'running'; in every other case it
\* fails with 'is not paused'.
C2_ResumeExactlyWhenPaused ==
    [][\A uid \in Uids :
          (outcome'.op = "resume" /\ outcome'.uid = uid) =>
              LET e == _parse_time_entry(time_entries, uid)
              IN  IF PausedAndClosed(e)
                  THEN /\ outcome'.res = "ok"
                       /\ FileRec(uid)'.status = S_running
                       /\ FileRec(uid)'.stopwatch =
                              Append(e.stopwatch, Segment(now, None))
                  ELSE outcome'.res = "is not paused"]_vars

\* a resume has been accepted on an entry that had been paused
C2_Witness ==
    /\ outcome.op = "resume" /\ outcome.res = "ok"
    /\ Len(FileRec(outcome.uid).stopwatch) = 2
    /\ IsClosed(FileRec(outcome.uid).stopwatch[1])

\* what stop does when it succeeds, but for the completed timestamp
StopEffect(uid, e) ==
    /\ RunningAndOpen(e)
    /\ FileRec(uid)'.status = S_stopped
    /\ FileRec(uid)'.stopwatch = ClosedAt(e.stopwatch, now)

\* C3 as stated: stop is rejected for a paused or stopped entry and on
\* success closes the open segment now, writes status 'stopped' and sets
\* completed to the current timestamp.
C3_StopSetsCompletedNow ==
    [][\A uid \in Uids :
          (outcome'.op = "stop" /\ outcome'.uid = uid) =>
              LET e == _parse_time_entry(time_entries, uid)
              IN  /\ e.status \in {S_paused, S_stopped} =>
                         outcome'.res = "is not running"
                  /\ outcome'.res = "ok" =>
                         /\ StopEffect(uid, e)
                         /\ FileRec(uid)'.completed = now]_vars

\* C3 amended: as C3, with completed set to the current timestamp at the
\* resolution of one second (the stop of the segment keeps the full
\* timestamp).
C3_StopSetsCompletedSecond ==
    [][\A uid \in Uids :
          (outcome'.op = "stop" /\ outcome'.uid = uid) =>
              LET e == _parse_time_entry(time_entries, uid)
              IN  /\ e.status \in {S_paused, S_stopped} =>
                         outcome'.res = "is not running"
                  /\ outcome'.res = "ok" =>
                         /\ StopEffect(uid, e)
                         /\ FileRec(uid)'.completed = WholeSecond(now)]_vars

\* a stop has been accepted at a time that is not a whole second
C3_Witness ==
    /\ outcome.op = "stop" /\ outcome.res = "ok"
    /\ now # WholeSecond(now)
    /\ LastOf(FileRec(outcome.uid).stopwatch).stop = now

\* C4: 'stopped' is terminal for the status transitions: from a persisted
\* status 'stopped' no step of start, pause, resume and stop changes the
\* record again, and every pause, resume or stop on the entry is rejected.
C4_StoppedIsTerminal ==
    [][\A uid \in Uids :
          (HasFile(uid) /\ FileRec(uid).status = S_stopped) =>
              /\ FileRec(uid)' = FileRec(uid)
              /\ (outcome'.op \in {"pause", "resume", "stop"}
                      /\ outcome'.uid = uid) =>
                     outcome'.res \in {"is not running", "is not paused"}]_vars

\* a pause, resume or stop has been rejected on a stopped entry
C4_Witness ==
    /\ outcome.op \in {"pause", "resume", "stop"}
    /\ outcome.res \in {"is not running", "is not paused"}
    /\ FileRec(outcome.uid).status = S_stopped
    /\ FileRec(outcome.uid).completed # None

\* every open segment of the stopwatch is its last element
OpenOnlyLast(stopwatch) ==
    \A i \in DOMAIN stopwatch : IsOpen(stopwatch[i]) => i = Len(stopwatch)

\* C5: in every state reached through start, pause, resume, stop and
\* modify, each stopwatch, persisted or loaded, has at most one open
\* segment, and only as its last element.
C5_OpenSegmentOnlyLast ==
    /\ \A i \in DOMAIN files : OpenOnlyLast(files[i].entry.stopwatch)
    /\ \A i \in DOMAIN time_entries : OpenOnlyLast(time_entries[i].stopwatch)

\* --del-time has removed the first segment of a resumed entry
C5_Witness ==
    \E i \in DOMAIN files :
        /\ Len(files[i].entry.stopwatch) = 1
        /\ IsOpen(files[i].entry.stopwatch[1])
        /\ files[i].entry.stopwatch[1].start > files[i].entry.started
        /\ outcome.op = "modify"

\* C6: after any sequence of start, pause, resume and stop every persisted
\* record has a status consistent with its stopwatch, and start writes a
\* record with status 'running' and exactly one open segment.
C6_StatusMatchesStopwatch ==
    /\ \A i \in DOMAIN files :
           LET e == files[i].entry
           IN  /\ e.status = S_running =>
                      /\ e.stopwatch # <<>>
                      /\ LastOf(e.stopwatch).start # None
                      /\ LastOf(e.stopwatch).stop = None
               /\ e.status = S_paused =>
                      \A j \in DOMAIN e.stopwatch : IsClosed(e.stopwatch[j])
    /\ outcome.op = "start" =>
           /\ FileRec(outcome.uid).status = S_running
           /\ FileRec(outcome.uid).stopwatch = <<Segment(now, None)>>

\* an entry has been paused after a resume
C6_Witness ==
    /\ outcome.op = "pause" /\ outcome.res = "ok"
    /\ FileRec(outcome.uid).status = S_paused
    /\ Len(FileRec(outcome.uid).stopwatch) = 2

----------------------------------------------------------------------------
(* The search evaluator.                                                   *)

\* the uids of the loaded entries, in load order
StoreUids == [i \in DOMAIN time_entries |-> time_entries[i].uid]

InResult(uid) == InList(uid, result.uids)

\* the entry has no value for the field
Lacks(e, field) ==
    \/ field = K_alias /\ e.alias = <<>>
    \/ field = K_description /\ e.description = <<>>
    \/ field = K_project /\ e.project = <<>>
    \/ field = K_tags /\ e.tags = <<>>
    \/ field = K_status /\ e.status = <<>>
    \/ field = K_started /\ e.started = None
    \/ field = K_completed /\ e.completed = None
    \/ field = K_notes /\ e.notes = <<>>

\* the entry is returned for the criterion on its own
MatchesAlone(criterion, uid) == InList(uid, _perform_search(criterion).uids)

\* C7: for a search term of two populated fields an entry is returned iff
\* it is returned for each criterion on its own, and an entry that lacks
\* one of the two fields is never returned.
C7_IncludeIsAnd ==
    outcome.op = "search" =>
        \A c1, c2 \in Criteria :
            (FieldOf(c1) # FieldOf(c2)
                 /\ term = JoinWith(<<c1, c2>>, ",")) =>
                /\ ~result.error
                /\ \A i \in DOMAIN time_entries :
                       LET e == time_entries[i]
                       IN  /\ InResult(e.uid) <=>
                                  (MatchesAlone(c1, e.uid)
                                       /\ MatchesAlone(c2, e.uid))
                           /\ (Lacks(e, FieldOf(c1)) \/ Lacks(e, FieldOf(c2)))
                                  => ~InResult(e.uid)

\* a two-field search returned an entry and dropped another one that lacks
\* the first field although it matches the second criterion
C7_Witness ==
    /\ outcome.op = "search"
    /\ result.uids # <<>>
    /\ \E c1, c2 \in Criteria :
           /\ FieldOf(c1) # FieldOf(c2)
           /\ term = JoinWith(<<c1, c2>>, ",")
           /\ \E i \in DOMAIN time_entries :
                  /\ Lacks(time_entries[i], FieldOf(c1))
                  /\ MatchesAlone(c2, time_entries[i].uid)
                  /\ ~InResult(time_entries[i].uid)

\* the lower-cased alternatives of a '+' list
LowerAll(alts) == {Lower(alts[i]) : i \in DOMAIN alts}

\* the uids of the store, in load order, that satisfy Test
Selected(Test(_)) ==
    SelectSeq(StoreUids, LAMBDA uid : Test(Stored(time_entries, uid)))

\* C8: a status criterion with '+' alternatives returns exactly the entries
\* whose status is one of the alternatives, which is the union of what the
\* alternatives return one by one, and a tags criterion returns exactly the
\* entries that carry at least one listed alternative.
C8_PlusIsOr ==
    outcome.op = "search" =>
        /\ \A alts \in StatusAlternatives :
               term = Criterion(K_status, JoinWith(alts, "+")) =>
                   /\ result.uids =
                          Selected(LAMBDA e : e.status \in LowerAll(alts))
                   /\ \A i \in DOMAIN StoreUids :
                          InResult(StoreUids[i]) <=>
                              \E k \in DOMAIN alts :
                                  MatchesAlone(Criterion(K_status, alts[k]),
                                               StoreUids[i])
        /\ \A alts \in TagAlternatives :
               term = Criterion(K_tags, JoinWith(alts, "+")) =>
                   result.uids =
                       Selected(LAMBDA e :
                                    \E t \in LowerAll(alts) :
                                        InList(t, e.tags))

\* status=running+paused returned a running and a paused entry
C8_Witness ==
    /\ outcome.op = "search"
    /\ term = Criterion(K_status, JoinWith(<<S_running, S_paused>>, "+"))
    /\ Len(result.uids) = 2
    /\ Stored(time_entries, result.uids[1]).status
           # Stored(time_entries, result.uids[2]).status

\* C9: any%status=<alternatives> returns exactly the entries whose status
\* is none of the alternatives.
C9_ExcludeStatus ==
    outcome.op = "search" =>
        \A alts \in StatusAlternatives :
            term = JoinWith(<<<<"a", "n", "y">>, Criterion(K_status,
                                                JoinWith(alts, "+"))>>, "%")
                => result.uids =
                       Selected(LAMBDA e : e.status \notin LowerAll(alts))

\* C10: whatever the search part, no entry returned for an exclude part
\* tags=T carries one of the tags of T.
C10_ExcludedTagsNeverReturned ==
    outcome.op = "search" =>
        \A search \in SearchParts, alts \in TagAlternatives :
            term = JoinWith(<<search, Criterion(K_tags,
                                                 JoinWith(alts, "+"))>>, "%")
                => \A i \in DOMAIN result.uids :
                       ~\E t \in LowerAll(alts) :
                           InList(t, Stored(time_entries, result.uids[i]).tags)

\* tags=x+y%tags=x returned an entry and dropped one that the search part
\* matches
C10_Witness ==
    /\ outcome.op = "search"
    /\ term = JoinWith(<<Criterion(K_tags, <<"x", "+", "y">>),
                         Criterion(K_tags, <<"x">>)>>, "%")
    /\ result.uids # <<>>
    /\ \E i \in DOMAIN time_entries :
           /\ InList(<<"x">>, time_entries[i].tags)
           /\ ~InResult(time_entries[i].uid)

\* the value of a text field of an entry
TextField(e, field) ==
    IF field = K_description THEN e.description
    ELSE IF field = K_project THEN e.project
    ELSE e.notes

\* C11: for a description, project or notes criterion F=x, any%F=x drops
\* exactly the entries whose lower-cased field contains the lower-cased x,
\* which are the entries that F=x returns.
C11_ExcludeTextIgnoresCase ==
    outcome.op = "search" =>
        \A criterion \in ExcludeParts :
            (FieldOf(criterion) \in {K_description, K_project, K_notes}
                 /\ term = JoinWith(<<<<"a", "n", "y">>, criterion>>, "%")) =>
                /\ result.uids =
                       Selected(LAMBDA e : ~MatchesAlone(criterion, e.uid))
                /\ result.uids =
                       Selected(LAMBDA e :
                           ~Contains(Lower(Split(criterion, "=")[2]),
                                     Lower(TextField(e,
                                                     FieldOf(criterion)))))

----------------------------------------------------------------------------
(* _calc_entry_time.                                                       *)

\* timedelta.seconds: the seconds component of a timedelta, whose days and
\* microseconds are components of their own (a negative timedelta has
\* negative days and 0 <= seconds < 86400)
timedelta_seconds(delta) == (delta % Day) \div Second

RECURSIVE SumSeconds(_)
\* the loop over the stopwatch: seconds += duration.seconds
SumSeconds(stopwatch) ==
    IF stopwatch = <<>> THEN 0
    ELSE LET entry == Head(stopwatch)
             t_start == entry.start
             t_stop == IF entry.stop = None THEN now ELSE entry.stop
         IN  (IF t_start # None THEN timedelta_seconds(t_stop - t_start)
              ELSE 0)
                 + SumSeconds(Tail(stopwatch))

\* the total left as a bare number of seconds
Sanitize_raw(hours, minutes, seconds) == <<hours, minutes, seconds>>

\* the 'sanitize time' loops, in closed form
Sanitize(hours, minutes, seconds) ==
    <<hours + (minutes + seconds \div 60) \div 60,
      (minutes + seconds \div 60) % 60,
      seconds % 60>>

\* _calc_entry_time: [hours, minutes, seconds], or [] for no stopwatch
_calc_entry_time(stopwatch) ==
    IF stopwatch = <<>> THEN <<>>
    ELSE Sanitize(0, 0, SumSeconds(stopwatch))

----------------------------------------------------------------------------
(* The durations of stopwatches: info, list, query and report hand the     *)
(* stopwatch of an entry to _calc_entry_time.                              *)

T_a == MkTime(1, 10, 0, 0)

\* closed segments: 47:30, less than a second, exactly one day, more than
\* a day, a stop before its start, a segment without start
ClosedSegments ==
    {Segment(T_a, T_a + MkTime(0, 0, 47, 30)),
     Segment(T_a, T_a + 1),
     Segment(T_a, T_a + Day),
     Segment(T_a, T_a + MkTime(1, 1, 0, 1)),
     Segment(T_a + MkTime(0, 0, 0, 10), T_a),
     Segment(None, T_a)}

OpenSegment == Segment(T_a + MkTime(0, 1, 0, 0), None)

\* the stopwatches of up to MaxSegments segments; only the last is open
Stopwatches ==
    UNION {{front \o tail :
                front \in [1..(n - 1) -> ClosedSegments],
                tail \in {<<seg>> : seg \in ClosedSegments \cup {OpenSegment}}}
           : n \in 1..MaxSegments} \cup {<<>>}

Clocks == {T_a + MkTime(0, 2, 0, 0) + 1, T_a + MkTime(1, 2, 0, 0)}

InitDuration ==
    /\ \E stopwatch \in Stopwatches :
           LET e == Entry(Uid(1), T_a, T_a, T_a, None, Alias(1), S_running,
                          <<"a">>, <<>>, <<>>, stopwatch, <<>>)
           IN  /\ time_entries = <<e>>
               /\ files = <<File(Uid(1), "entry", e)>>
               /\ time_entry_files = <<Uid(1)>>
    /\ interactive = FALSE
    /\ now \in Clocks
    /\ outcome = Done("idle", <<>>, "ok")
    /\ term = <<>>
    /\ result = <<>>
    /\ rounding_method = DEFAULT_ROUNDING_METHOD
    /\ rounding_interval = DEFAULT_ROUNDING_INTERVAL

\* info: the duration of the entry is computed from its stopwatch
info(alias) ==
    /\ outcome.op = "idle"
    /\ _uid_from_alias(alias) # <<>>
    /\ LET uid == _uid_from_alias(alias)
           time_entry == _parse_time_entry(time_entries, uid)
       IN  /\ term' = time_entry.stopwatch
           /\ result' = _calc_entry_time(time_entry.stopwatch)
           /\ outcome' = Done("info", uid, "ok")
    /\ UNCHANGED <<files, time_entries, time_entry_files, interactive, now,
                   rounding_method, rounding_interval>>

Info == info(Alias(1))

NextDuration == Info

SpecDuration == InitDuration /\ [][NextDuration]_vars

----------------------------------------------------------------------------
(* The durations.                                                          *)

\* a duration [hours, minutes, seconds] in seconds; no duration counts 0
InSeconds(entry_time) ==
    IF entry_time = <<>> THEN 0
    ELSE 3600 * entry_time[1] + 60 * entry_time[2] + entry_time[3]

\* the stop of a segment, the current time for an open one
EffectiveStop(segment) == IF segment.stop = None THEN now ELSE segment.stop

\* the segment runs forwards: it has a start and does not stop before it
Forward(segment) ==
    segment.start # None /\ EffectiveStop(segment) >= segment.start

RECURSIVE ElapsedSeconds(_)
\* the whole seconds from start to effective stop, summed over the segments
ElapsedSeconds(stopwatch) ==
    IF stopwatch = <<>> THEN 0
    ELSE (EffectiveStop(Head(stopwatch)) - Head(stopwatch).start) \div Second
             + ElapsedSeconds(Tail(stopwatch))

\* C12: for a stopwatch whose segments all have stop >= start, the
\* computed duration is, in seconds, the sum over the segments of
\* (effective stop - start), an open segment ending at the current time.
C12_TotalIsSumOfSegments ==
    (outcome.op = "info" /\ term # <<>>
         /\ \A i \in DOMAIN term : Forward(term[i]))
        => InSeconds(result) = ElapsedSeconds(term)

\* the segment stops before it starts
Backward(segment) ==
    segment.start # None /\ segment.stop # None
        /\ segment.stop < segment.start

\* C13: a last segment whose stop is earlier than its start adds nothing:
\* the duration is that of the stopwatch without it.
C13_BackwardSegmentAddsNothing ==
    (outcome.op = "info" /\ term # <<>> /\ Backward(LastOf(term)))
        => InSeconds(result)
               = InSeconds(_calc_entry_time(SubSeq(term, 1, Len(term) - 1)))

\* C14: the duration of a non-empty stopwatch is [hours, minutes, seconds]
\* with hours >= 0, 0 <= minutes < 60 and 0 <= seconds < 60, and the
\* duration of an empty stopwatch is the empty list.
C14_DurationNormalized ==
    outcome.op = "info" =>
        IF term = <<>> THEN result = <<>>
        ELSE /\ Len(result) = 3
             /\ result[1] >= 0
             /\ result[2] \in 0..59
             /\ result[3] \in 0..59

\* the duration of a stopwatch of several segments, one of them stopping
\* before its start, came to an hour or more
C14_Witness ==
    /\ outcome.op = "info"
    /\ Len(term) >= 2
    /\ \E i \in DOMAIN term : Backward(term[i])
    /\ Len(result) = 3
    /\ result[1] >= 1
    /\ result[3] > 0

----------------------------------------------------------------------------
(* _round_time.                                                            *)

\* the seconds dropped without the carry into the minutes
CarrySeconds_dropped(hours, minutes, seconds) == <<hours, minutes, 0>>

\* rounding up: a non-zero seconds component is carried into the minutes,
\* and minutes over 59 into the hours
CarrySeconds(hours, minutes, seconds) ==
    LET carried == IF seconds > 0 THEN minutes + 1 ELSE minutes
    IN  <<IF carried > 59 THEN hours + carried \div 60 ELSE hours,
          IF carried > 59 THEN carried % 60 ELSE carried,
          IF seconds > 0 THEN 0 ELSE seconds>>

\* rounding up that leaves no value where it is: a boundary moves to the
\* next boundary
RoundUp_strict(hours, minutes, seconds) ==
    LET step == IF rounding_interval = 1 THEN 15
                ELSE IF rounding_interval = 2 THEN 30 ELSE 60
        next == (minutes \div step + 1) * step
    IN  IF next >= 60 THEN <<hours + 1, 0, seconds>>
        ELSE <<hours, next, seconds>>

\* rounding up to the next 15 minute, 30 minute or hour increment
RoundUp(hours, minutes, seconds) ==
    IF rounding_interval = 1
    THEN IF minutes > 45 THEN <<hours + 1, 0, seconds>>
         ELSE IF 45 > minutes /\ minutes > 30 THEN <<hours, 45, seconds>>
         ELSE IF 30 > minutes /\ minutes > 15 THEN <<hours, 30, seconds>>
         ELSE IF 15 > minutes /\ minutes > 0 THEN <<hours, 15, seconds>>
         ELSE <<hours, minutes, seconds>>
    ELSE IF rounding_interval = 2
    THEN IF minutes > 30 THEN <<hours + 1, 0, seconds>>
         ELSE IF 30 > minutes /\ minutes > 0 THEN <<hours, 30, seconds>>
         ELSE <<hours, minutes, seconds>>
    ELSE IF rounding_interval = 3
    THEN IF minutes > 0 THEN <<hours + 1, 0, seconds>>
         ELSE <<hours, minutes, seconds>>
    ELSE <<hours, minutes, seconds>>

\* rounding down that moves to the increment above
RoundDown_as_up(hours, minutes, seconds) == RoundUp(hours, minutes, seconds)

\* rounding down to the last 15 minute, 30 minute or hour increment
RoundDown(hours, minutes, seconds) ==
    IF rounding_interval = 1
    THEN IF minutes > 45 THEN <<hours, 45, seconds>>
         ELSE IF 45 > minutes /\ minutes > 30 THEN <<hours, 30, seconds>>
         ELSE IF 30 > minutes /\ minutes > 15 THEN <<hours, 15, seconds>>
         ELSE IF 15 > minutes /\ minutes > 0 THEN <<hours, 0, seconds>>
         ELSE <<hours, minutes, seconds>>
    ELSE IF rounding_interval = 2
    THEN IF minutes > 30 THEN <<hours, 30, seconds>>
         ELSE IF 30 > minutes /\ minutes > 0 THEN <<hours, 0, seconds>>
         ELSE <<hours, minutes, seconds>>
    ELSE IF rounding_interval = 3
    THEN <<hours, 0, seconds>>
    ELSE <<hours, minutes, seconds>>

\* _round_time: the entry time rounded by the configured policy
_round_time(entry_time) ==
    LET hours == entry_time[1]
        minutes == entry_time[2]
        seconds == entry_time[3]
    IN  IF rounding_method = None THEN entry_time
        ELSE IF rounding_method = 1
        THEN LET carried == CarrySeconds(hours, minutes, seconds)
             IN  RoundUp(carried[1], carried[2], carried[3])
        ELSE IF rounding_method = 2
        THEN RoundDown(hours, minutes, 0)
        ELSE <<hours, minutes, seconds>>

----------------------------------------------------------------------------
(* The rounding of durations: info and report hand the duration of an      *)
(* entry to _round_time under the rounding policy of the configuration.    *)

\* rounding_method: none, up, down
Methods == {None, 1, 2}

\* rounding_interval: 15m, 30m, 1h
Intervals == {1, 2, 3}

SecondsPool == {0, 1, 30, 59}

\* the normalized durations of up to MaxHours hours
Durations ==
    {<<h, m, sec>> : h \in 0..MaxHours, m \in 0..59, sec \in SecondsPool}

InitRound ==
    /\ files = <<>>
    /\ time_entries = <<>>
    /\ time_entry_files = <<>>
    /\ interactive = FALSE
    /\ now = T0
    /\ outcome = Done("idle", <<>>, "ok")
    /\ term \in Durations
    /\ result = <<>>
    /\ rounding_method \in Methods
    /\ rounding_interval \in Intervals

\* rounded_time = self._round_time(entry_time)
Round ==
    /\ outcome.op = "idle"
    /\ result' = _round_time(term)
    /\ outcome' = Done("round", <<>>, "ok")
    /\ UNCHANGED <<files, time_entries, time_entry_files, interactive, now,
                   term, rounding_method, rounding_interval>>

\* the rounded time is rounded once more
RoundAgain ==
    /\ outcome.op = "round"
    /\ result' = _round_time(result)
    /\ outcome' = Done("round again", <<>>, "ok")
    /\ UNCHANGED <<files, time_entries, time_entry_files, interactive, now,
                   term, rounding_method, rounding_interval>>

NextRound ==
    \/ Round
    \/ RoundAgain

SpecRound == InitRound /\ [][NextRound]_vars

----------------------------------------------------------------------------
(* The rounded durations.                                                  *)

\* the minutes of the configured interval
StepMinutes ==
    IF rounding_interval = 1 THEN 15
    ELSE IF rounding_interval = 2 THEN 30 ELSE 60

\* C15: rounding the rounded value again, with the same method and
\* interval, returns the rounded value: round(round(d)) = round(d).
C15_RoundingIdempotent ==
    outcome.op = "round again" => result = _round_time(term)

\* 0:47:30 was rounded up twice and came to 1:00:00
C15_Witness ==
    /\ outcome.op = "round again"
    /\ rounding_method = 1
    /\ term = <<0, 47, 30>>
    /\ result = <<1, 0, 0>>

\* C16: in seconds, rounding down gives at most d and rounding up at least
\* d, and the rounded hours are the hours of d or one more.
C16_DownBelowUpAbove ==
    outcome.op = "round" =>
        /\ rounding_method = 2 => InSeconds(result) <= InSeconds(term)
        /\ rounding_method = 1 => InSeconds(term) <= InSeconds(result)
        /\ result[1] \in {term[1], term[1] + 1}

\* 0:59:30 was rounded up with a carried hour
C16_Witness ==
    /\ outcome.op = "round"
    /\ rounding_method = 1
    /\ term = <<0, 59, 30>>
    /\ result[1] = 1

\* C17: rounding down sets the seconds to 0, keeps the hours and replaces
\* the minutes by the largest interval boundary that is at most the minutes.
C17_DownToBoundaryBelow ==
    (outcome.op = "round" /\ rounding_method = 2) =>
        result = <<term[1], (term[2] \div StepMinutes) * StepMinutes, 0>>

\* 0:47:30 was rounded down by 30m to 0:30:00
C17_Witness ==
    /\ outcome.op = "round"
    /\ rounding_method = 2
    /\ rounding_interval = 2
    /\ term = <<0, 47, 30>>
    /\ result = <<0, 30, 0>>

\* the duration after a non-zero seconds component went into the minutes,
\* and the minutes over 59 into the hours
SecondsCarried(d) ==
    LET minutes == IF d[3] > 0 THEN d[2] + 1 ELSE d[2]
    IN  <<d[1] + minutes \div 60, minutes % 60, 0>>

\* the duration of h hours and m minutes, m up to 60
HoursMinutes(h, m) == IF m >= 60 THEN <<h + 1, 0, 0>> ELSE <<h, m, 0>>

\* C18 as stated: rounding up carries the seconds and then moves the
\* minutes to the next boundary strictly greater than the minutes.
C18_UpToBoundaryStrictlyAbove ==
    (outcome.op = "round" /\ rounding_method = 1) =>
        LET carried == SecondsCarried(term)
        IN  result = HoursMinutes(carried[1],
                         (carried[2] \div StepMinutes + 1) * StepMinutes)

\* C18: rounding up carries the seconds and then moves the minutes to the
\* least boundary greater than or equal to the minutes; minutes that are on
\* a boundary stay.
C18_UpToBoundaryAtOrAbove ==
    (outcome.op = "round" /\ rounding_method = 1) =>
        LET carried == SecondsCarried(term)
        IN  result = HoursMinutes(carried[1],
                         ((carried[2] + StepMinutes - 1) \div StepMinutes)
                             * StepMinutes)

\* 0:14:30 was rounded up by 15m: the carry put the minutes on the boundary
\* 15, where they stayed
C18_Witness ==
    /\ outcome.op = "round"
    /\ rounding_method = 1
    /\ rounding_interval = 1
    /\ term = <<0, 14, 30>>
    /\ result = <<0, 15, 0>>

\* C19: rounding up gives the least multiple of the interval, in seconds,
\* that is greater than or equal to d, as a normalized duration.
C19_UpIsLeastBoundaryAbove ==
    (outcome.op = "round" /\ rounding_method = 1) =>
        /\ InSeconds(result)
               = ((InSeconds(term) + 60 * StepMinutes - 1)
                      \div (60 * StepMinutes)) * (60 * StepMinutes)
        /\ result[2] \in 0..59
        /\ result[3] = 0

\* 0:47:30, the duration of the stopwatch 10:00:00-10:47:30, was rounded
\* up by 15m to 1:00:00
C19_Witness ==
    /\ outcome.op = "round"
    /\ rounding_method = 1
    /\ rounding_interval = 1
    /\ term = _calc_entry_time(<<Segment(T_a, T_a + MkTime(0, 0, 47, 30))>>)
    /\ result = <<1, 0, 0>>

----------------------------------------------------------------------------
(* The exclusion operator.                                                 *)

\* the position of the first '%' of the text
FirstPercent(text) ==
    CHOOSE i \in DOMAIN text :
        text[i] = "%" /\ \A j \in 1..(i - 1) : text[j] # "%"

\* the result for the text split at its first '%' only, all of the text
\* after it being the exclude part
SplitAtFirst(text) ==
    LET i == FirstPercent(text)
        search == ParsePart(Lower(SubSeq(text, 1, i - 1)), TRUE)
        exclude == ParsePart(Lower(SubSeq(text, i + 1, Len(text))), FALSE)
    IN  IF search.error \/ exclude.error
        THEN [error |-> TRUE, uids |-> <<>>]
        ELSE [error |-> FALSE,
              uids |-> Keep(StoreUids, search.pairs, exclude.pairs)]

\* C20: an expression with two or more '%' is split at the first one only:
\* the exclude part is all the text after it, a later '%' and what follows
\* it being part of the value of the exclude criterion.
C20_SplitAtFirstPercent ==
    (outcome.op = "search" /\ Len(Split(term, "%")) >= 3)
        => result = SplitAtFirst(term)

----------------------------------------------------------------------------
(* The date ranges.                                                        *)

\* the end of a range: a date with a zero time of day stands for 23:59:59
\* of its day
WholeDay(t) == IF t % Day = 0 THEN t + MkTime(0, 23, 59, 59) ELSE t

\* the inclusive range a date-range expression denotes
DenotedRange(range) ==
    IF StartsWith(range, "~")
    THEN [begin |-> origin,
          end |-> WholeDay(_datetime_or_none(Remove(range, "~")))]
    ELSE IF EndsWith(range, "~")
    THEN [begin |-> _datetime_or_none(Remove(range, "~")), end |-> now]
    ELSE IF InList("~", range)
    THEN [begin |-> _datetime_or_none(Split(range, "~")[1]),
          end |-> WholeDay(_datetime_or_none(Split(range, "~")[2]))]
    ELSE [begin |-> _datetime_or_none(range),
          end |-> WholeDay(_datetime_or_none(range))]

\* the timestamp of an entry a date criterion is about
Timestamp(e, field) == IF field = K_started THEN e.started ELSE e.completed

\* C21: a started or completed criterion returns exactly the entries that
\* have the timestamp, with begin <= t <= end for the range the expression
\* denotes: ~D up to D, D~ from D to now, D1~D2, a bare D with a time of day
\* only t = D, an end with a zero time of day extended to 23:59:59.
C21_DateRangeInclusive ==
    outcome.op = "search" =>
        \A field \in {K_started, K_completed}, range \in DateRanges :
            term = Criterion(field, range) =>
                result.uids =
                    Selected(LAMBDA e :
                        /\ Timestamp(e, field) # None
                        /\ DenotedRange(range).begin <= Timestamp(e, field)
                        /\ Timestamp(e, field) <= DenotedRange(range).end)

----------------------------------------------------------------------------
(* Loading a data directory: the constructor and refresh scan the entry    *)
(* files in the order os.scandir yields them.                              *)

\* the record of an entry file written by hand or by start
Loadable(uid, alias) ==
    Entry(uid, T0, T0, T0, None, alias, S_running, <<"a">>, <<>>, <<>>,
          <<Segment(T0, None)>>, <<>>)

Path(n) == <<"f", Digits[n + 1]>>

\* an entry file, files repeating its uid, its alias and both, a file
\* whose alias differs in case only, an unreadable file and a file
\* without alias
FilePool ==
    {File(Path(1), "entry", Loadable(Uid(1), Alias(1))),
     File(Path(2), "entry", Loadable(Uid(1), Alias(2))),
     File(Path(3), "entry", Loadable(Uid(2), Alias(1))),
     File(Path(4), "entry", Loadable(Uid(1), Alias(1))),
     File(Path(5), "entry", Loadable(Uid(3), <<"A", "a", "a", "a">>)),
     File(Path(6), "unreadable", NoEntry),
     File(Path(7), "entry", Loadable(Uid(4), <<>>))}

\* the directories: DirSize files of the pool in any scan order
Directories ==
    {dir \in [1..DirSize -> FilePool] :
         \A i, j \in 1..DirSize : i # j => dir[i] # dir[j]}

InitLoad ==
    /\ files \in Directories
    /\ time_entries = <<>>
    /\ time_entry_files = <<>>
    /\ interactive = TRUE
    /\ now = T0
    /\ outcome = Done("idle", <<>>, "ok")
    /\ term = <<>>
    /\ result = <<>>
    /\ rounding_method = DEFAULT_ROUNDING_METHOD
    /\ rounding_interval = DEFAULT_ROUNDING_INTERVAL

\* _parse_files: the scan of the directory, with the reports of _error_pass
Load ==
    /\ outcome.op = "idle"
    /\ time_entries' = _parse_files(files).this_entries
    /\ time_entry_files' = _parse_files(files).this_entry_files
    /\ result' = _parse_files(files).errors
    /\ outcome' = Done("load", <<>>, "ok")
    /\ UNCHANGED <<files, interactive, now, term,
                   rounding_method, rounding_interval>>

NextLoad == Load

SpecLoad == InitLoad /\ [][NextLoad]_vars

----------------------------------------------------------------------------
(* The loaded store.                                                       *)

\* the file of the scan at position k was loaded
LoadedFile(k) == InList(files[k].fullpath, time_entry_files)

\* the files at j and k present the same uid, or the same alias
SameUid(j, k) ==
    files[j].kind = "entry" /\ files[k].kind = "entry"
        /\ files[k].entry.uid # <<>>
        /\ files[j].entry.uid = files[k].entry.uid

SameAlias(j, k) ==
    files[j].kind = "entry" /\ files[k].kind = "entry"
        /\ files[k].entry.alias # <<>>
        /\ files[j].entry.alias = files[k].entry.alias

\* the file at k is reported as a duplicate of the file at j
ReportedDuplicate(j, k) ==
    \E i \in DOMAIN result :
        /\ result[i].kind \in {"duplicate uid", "duplicate alias"}
        /\ result[i].fullpath = files[k].fullpath
        /\ result[i].dup = files[j].fullpath

\* the loaded entries have a uid and an alias each, pairwise distinct
DistinctKeys ==
    /\ \A i \in DOMAIN time_entries :
           time_entries[i].uid # <<>> /\ time_entries[i].alias # <<>>
    /\ \A i, j \in DOMAIN time_entries :
           i # j => /\ time_entries[i].uid # time_entries[j].uid
                    /\ time_entries[i].alias # time_entries[j].alias

\* the entry loaded from the file at j is the record of that file
KeptUnchanged(j) ==
    \E i \in DOMAIN time_entries :
        time_entry_files[i] = files[j].fullpath
            /\ time_entries[i] = files[j].entry

\* C22 as stated: a file presenting the uid or the alias of any earlier
\* file of the scan is skipped and reported with both paths, the earlier
\* entry is kept, and the loaded entries have distinct, complete keys.
C22_DuplicateOfEarlierFile ==
    outcome.op = "load" =>
        /\ \A k \in DOMAIN files : \A j \in 1..(k - 1) :
               (SameUid(j, k) \/ SameAlias(j, k)) =>
                   ~LoadedFile(k) /\ \E i \in 1..(k - 1) :
                                         ReportedDuplicate(i, k)
        /\ DistinctKeys

\* C22: a file presenting the uid or the alias of an earlier file that
\* was loaded is skipped and reported as a duplicate of that file, whose
\* entry is kept unchanged, and the loaded entries have distinct, complete
\* keys.
C22_DuplicateOfLoadedFile ==
    outcome.op = "load" =>
        /\ \A k \in DOMAIN files : \A j \in 1..(k - 1) :
               (LoadedFile(j) /\ (SameUid(j, k) \/ SameAlias(j, k))) =>
                   /\ ~LoadedFile(k)
                   /\ ReportedDuplicate(j, k)
                   /\ KeptUnchanged(j)
        /\ DistinctKeys

\* a scan loaded a file and skipped two later ones, one repeating its uid
\* and one repeating its alias
C22_Witness ==
    /\ outcome.op = "load"
    /\ Len(time_entries) = 1
    /\ \E j, k, l \in DOMAIN files :
           /\ j < k /\ j < l /\ k # l
           /\ LoadedFile(j)
           /\ SameUid(j, k) /\ ~SameAlias(j, k) /\ ReportedDuplicate(j, k)
           /\ SameAlias(j, l) /\ ~SameUid(j, l) /\ ReportedDuplicate(j, l)

\* C23: after a load no two loaded entries have aliases that are equal
\* ignoring case.
C23_AliasesDistinctIgnoringCase ==
    outcome.op = "load" =>
        \A i, j \in DOMAIN time_entries :
            i # j => Lower(time_entries[i].alias)
                         # Lower(time_entries[j].alias)

\* the reports of the scan for the file at k
ReportsFor(k) ==
    {i \in DOMAIN result : result[i].fullpath = files[k].fullpath}

\* C24: every unreadable file and every duplicate is skipped with exactly
\* one report, and the other files of the directory are still loaded.
C24_OneReportPerSkippedFile ==
    outcome.op = "load" =>
        \A k \in DOMAIN files :
            (files[k].kind = "unreadable"
                 \/ \E j \in 1..(k - 1) :
                        LoadedFile(j) /\ (SameUid(j, k) \/ SameAlias(j, k)))
                => ~LoadedFile(k) /\ Cardinality(ReportsFor(k)) = 1

----------------------------------------------------------------------------
(* unset and delete.                                                       *)

\* os.remove(filename)
RemoveFile(filename) ==
    SelectSeq(files, LAMBDA f : f.fullpath # filename)

\* the entries te with the field of uid set to None
ClearField(te, uid, field) ==
    [i \in DOMAIN te |->
        IF te[i].uid # uid THEN te[i]
        ELSE IF field = K_tags THEN [te[i] EXCEPT !.tags = <<>>]
        ELSE [te[i] EXCEPT !.project = <<>>]]

\* the value of self.time_entries[uid][field]
FieldValue(uid, field) ==
    IF field = K_tags THEN Stored(time_entries, uid).tags
    ELSE Stored(time_entries, uid).project

\* unset: clears the tags or the project of the entry
unset(alias, field) ==
    LET uid == _uid_from_alias(alias)
    IN  IF uid = <<>> THEN Rejected(Done("unset", uid, "not found"))
        ELSE IF Lower(field) \notin {K_tags, K_project}
        THEN Rejected(Done("unset", uid, "cannot clear field"))
        ELSE IF FieldValue(uid, Lower(field)) = <<>>
        THEN Commit(files, time_entries, Done("unset", uid, "ok"))
        ELSE LET cleared == ClearField(time_entries, uid, Lower(field))
                 time_entry == _parse_time_entry(cleared, uid)
             IN  Commit(_write_yaml_file(time_entry, FileOf(uid)), cleared,
                        Done("unset", uid, "ok"))

\* delete: removes the file of the entry once the user confirms
delete(alias, confirm) ==
    LET uid == _uid_from_alias(alias)
    IN  IF uid = <<>> THEN Rejected(Done("delete", uid, "not found"))
        ELSE IF ~confirm
        THEN Commit(files, time_entries, Done("delete", uid, "cancelled"))
        ELSE IF ~\E i \in DOMAIN files : files[i].fullpath = FileOf(uid)
        THEN Rejected(Done("delete", uid, "failure deleting"))
        ELSE Commit(RemoveFile(FileOf(uid)), time_entries,
                    Done("delete", uid, "ok"))

StartTagged == start(<<"D">>, <<"P", "r">>, <<"y", ",", "X">>)

Unset == \E alias \in CmdAliases, field \in {K_tags, K_project, K_notes} :
             unset(alias, field)

Delete == \E alias \in CmdAliases, confirm \in BOOLEAN :
              delete(alias, confirm)

NextCommands ==
    \/ StartTagged
    \/ Pause
    \/ Resume
    \/ Stop
    \/ ModifyStatus
    \/ Unset
    \/ Delete
    \/ refresh
    \/ Relaunch

SpecCommands == Init /\ [][NextCommands]_vars

----------------------------------------------------------------------------
(* Commands on an alias that is not loaded.                                *)

\* the step is one of the six commands on the alias
CommandOn(alias) ==
    \/ pause(alias)
    \/ resume(alias)
    \/ stop(alias)
    \/ \E args \in StatusArgs : CmdModify(alias, args)
    \/ \E field \in {K_tags, K_project, K_notes} : unset(alias, field)
    \/ \E confirm \in BOOLEAN : delete(alias, confirm)

\* the commands that locate an entry by alias
AliasCommands == {"pause", "resume", "stop", "modify", "unset", "delete"}

\* a command on an alias that is not loaded ends with 'not found', and a
\* step that ends so leaves the files, the shell and its memory alone
NotFoundStep ==
    /\ \A alias \in CmdAliases :
           (_uid_from_alias(alias) = <<>> /\ CommandOn(alias)) =>
               (outcome'.op \in AliasCommands /\ outcome'.res = "not found")
    /\ (outcome'.op \in AliasCommands /\ outcome'.res = "not found") =>
           /\ files' = files
           /\ interactive' = interactive
           /\ interactive => (/\ time_entries' = time_entries
                              /\ time_entry_files' = time_entry_files)
           /\ ~interactive =>
                  time_entries' = _parse_files(files).this_entries

\* C25: pause, resume, stop, modify, unset and delete on an alias that no
\* loaded entry has fail with 'not found' and write or remove no file; in
\* the shell the memory and the shell stay as they are, otherwise the
\* process ends and the next one loads the unchanged files.
C25_NotFoundChangesNoFile == [][NotFoundStep]_vars

\* in the shell a delete named an alias that is not loaded while the file
\* of another entry was on disk
C25_Witness ==
    /\ outcome.op = "delete"
    /\ outcome.res = "not found"
    /\ interactive
    /\ Len(files) = 1
    /\ Len(time_entries) = 1

----------------------------------------------------------------------------
(* The order of a result and of a report.                                  *)

\* the positions of the uids of a list in the load order
LoadPosition(uid) == CHOOSE i \in DOMAIN time_entries : time_entries[i].uid = uid

\* each uid of the list at most once
EachOnce(uids) == \A i, j \in DOMAIN uids : i # j => uids[i] # uids[j]

\* the uids of both lists are the same
SameUids(a, b) ==
    {a[i] : i \in DOMAIN a} = {b[i] : i \in DOMAIN b}

\* the position of a uid in a list
PositionIn(uid, uids) == CHOOSE i \in DOMAIN uids : uids[i] = uid

\* a result is in load order, each uid once
InLoadOrder(uids) ==
    /\ EachOnce(uids)
    /\ \A i, j \in DOMAIN uids :
           i < j => LoadPosition(uids[i]) < LoadPosition(uids[j])

\* the list is the given one sorted by completed, equal ones in input order
StablySorted(uids, given) ==
    /\ EachOnce(uids)
    /\ SameUids(uids, given)
    /\ \A i, j \in DOMAIN uids :
           i < j =>
               LET a == Stored(time_entries, uids[i]).completed
                   b == Stored(time_entries, uids[j]).completed
               IN  \/ a < b
                   \/ /\ a = b
                      /\ PositionIn(uids[i], given) < PositionIn(uids[j], given)

\* C26: a search returns the matching uids in load order, each at most
\* once, and the sort of a report returns the uids it was given, each
\* once, in non-decreasing order of completed with equal ones in input
\* order, for every result a query returns, entries without a completed
\* timestamp included.
C26_ResultAndReportOrder ==
    /\ outcome.op = "search" => InLoadOrder(result.uids)
    /\ outcome.op = "report" =>
           /\ outcome.res = "ok"
           /\ StablySorted(result.uids, _perform_search(ViewTerm(term)).uids)

\* the same for the reports whose entries all have a completed timestamp
C26_SortOfCompletedEntries ==
    /\ outcome.op = "search" => InLoadOrder(result.uids)
    /\ (/\ outcome.op = "report"
        /\ ~SortRaises(time_entries, _perform_search(ViewTerm(term)).uids)) =>
           /\ outcome.res = "ok"
           /\ StablySorted(result.uids, _perform_search(ViewTerm(term)).uids)

\* a report of two completed entries that the sort has reordered
C26_Reordered ==
    /\ outcome.op = "report"
    /\ outcome.res = "ok"
    /\ Len(result.uids) = 2
    /\ result.uids # _perform_search(ViewTerm(term)).uids

----------------------------------------------------------------------------
(* Entries that no transition accepts.                                     *)

\* stopwatch[-1]['start'] of pause and stop raises: there is no segment, or
\* the last one has no start
LastStartRaises(uid) ==
    LET stopwatch == _parse_time_entry(time_entries, uid).stopwatch
    IN  stopwatch = <<>> \/ stopwatch[Len(stopwatch)].start = None

\* pause and stop go through for the entry
PauseOrStopAccepted(uid) == _is_running(uid) /\ ~LastStartRaises(uid)

\* resume goes through for the entry
ResumeAccepted(uid) == _is_paused(uid)

\* the memory is the load of the files, as it is for every single command
\* and in the shell after a refresh
MemoryLoaded == time_entries = _parse_files(files).this_entries

\* the loaded entries that are running or paused and that pause, resume
\* and stop all turn down
Stuck ==
    {i \in DOMAIN time_entries :
         /\ _parse_time_entry(time_entries, time_entries[i].uid).status
                \in {S_running, S_paused}
         /\ ~PauseOrStopAccepted(time_entries[i].uid)
         /\ ~ResumeAccepted(time_entries[i].uid)}

\* C27: in every state reached through start, pause, resume, stop and
\* modify (--status, del_time) a running or paused entry has pause, resume
\* or stop accepted.
C27_NoEntryStuck == MemoryLoaded => Stuck = {}

\* there is a running or paused entry and it is not stuck
C27_SomeEntryLive ==
    /\ MemoryLoaded
    /\ Stuck = {}
    /\ \E i \in DOMAIN time_entries :
           time_entries[i].status \in {S_running, S_paused}

----------------------------------------------------------------------------
(* A transition and the command that follows it.                           *)

\* the step is a command on the entry of the command before it, which
\* went through
FollowsOn(before, after) ==
    /\ outcome.op = before
    /\ outcome.res = "ok"
    /\ outcome'.op = after
    /\ outcome'.uid = outcome.uid

\* a resume right after a pause, and a pause or stop right after a resume,
\* is accepted
FollowUpAccepted ==
    (\/ FollowsOn("pause", "resume")
     \/ FollowsOn("resume", "pause")
     \/ FollowsOn("resume", "stop")) => outcome'.res = "ok"

\* C28: in the shell a resume that follows a successful pause of the
\* entry, and a pause or stop that follows a successful resume, is
\* accepted whether or not refresh has run in between.
C28_ShellSeesTransition == [][interactive => FollowUpAccepted]_vars

\* the same for single commands, each of which loads the files
C28_CommandSeesTransition == [][~interactive => FollowUpAccepted]_vars

\* in the shell a resume was accepted right after a refresh
C28_ResumedInShell ==
    /\ interactive
    /\ outcome.op = "resume"
    /\ outcome.res = "ok"

----------------------------------------------------------------------------
(* modify with one field.  The store holds entries as start, pause and     *)
(* stop write them: start keeps the project as it was typed.               *)

T_paused == T0 + 1

ModifyPool ==
    {Entry(Uid(1), T0, T0, T0, None, Alias(1), S_running,
           <<"D">>, <<"P", "r">>, <<<<"x">>, <<"y">>>>, <<Segment(T0, None)>>, <<>>),
     Entry(Uid(2), T0, T_paused, T0, None, Alias(2), S_paused,
           <<"E">>, <<>>, <<>>, <<Segment(T0, T_paused)>>, <<"n">>),
     Entry(Uid(3), T0, T_paused, T0, T0, Alias(3), S_stopped,
           <<"F">>, <<"q">>, <<<<"z">>>>, <<Segment(T0, T_paused)>>, <<>>)}

ModifyStores ==
    {store \in [1..StoreSize -> ModifyPool] :
         \A i, j \in 1..StoreSize : i # j => store[i] # store[j]}

ModifyAliases == {Alias(1), Alias(2), Alias(3)}

\* the fields a modify command can set
ModifyFields ==
    {K_description, K_project, K_tags, K_status, K_notes, K_started,
     K_completed}

\* modify commands that supply one field
FieldArgs ==
    {[NoArgs EXCEPT !.new_description = <<"N">>],
     [NoArgs EXCEPT !.new_project = <<"w">>],
     [NoArgs EXCEPT !.new_tags = <<"w">>],
     [NoArgs EXCEPT !.new_tags = <<"+", "w">>],
     [NoArgs EXCEPT !.new_status = S_stopped],
     [NoArgs EXCEPT !.new_notes = <<"m">>],
     [NoArgs EXCEPT !.new_started = <<"2">>],
     [NoArgs EXCEPT !.new_completed = <<"2", " ", "0", "9", ":", "3", "0">>]}

InitModify ==
    /\ \E store \in ModifyStores :
           /\ time_entries = store
           /\ files = [i \in 1..StoreSize |->
                          File(store[i].uid, "entry", store[i])]
           /\ time_entry_files = [i \in 1..StoreSize |-> store[i].uid]
    /\ interactive \in BOOLEAN
    /\ now = T_paused + 1
    /\ outcome = Done("idle", <<>>, "ok")
    /\ term = <<>>
    /\ result = NoResult
    /\ rounding_method = DEFAULT_ROUNDING_METHOD
    /\ rounding_interval = DEFAULT_ROUNDING_INTERVAL

ModifyField ==
    /\ outcome.op = "idle"
    /\ \E alias \in ModifyAliases, args \in FieldArgs : CmdModify(alias, args)

PauseStored ==
    /\ outcome.op = "idle"
    /\ \E alias \in ModifyAliases : pause(alias)

ResumeStored ==
    /\ outcome.op = "idle"
    /\ \E alias \in ModifyAliases : resume(alias)

NextModify ==
    \/ ModifyField
    \/ PauseStored
    \/ ResumeStored

SpecModify == InitModify /\ [][NextModify]_vars

\* the field the arguments supply
Target(args) ==
    IF args.new_description # <<>> THEN K_description
    ELSE IF args.new_project # <<>> THEN K_project
    ELSE IF args.new_tags # <<>> THEN K_tags
    ELSE IF args.new_status # <<>> THEN K_status
    ELSE IF args.new_notes # <<>> THEN K_notes
    ELSE IF args.new_started # <<>> THEN K_started
    ELSE K_completed

\* the value of a field of a record
Value(entry, field) ==
    IF field = K_description THEN entry.description
    ELSE IF field = K_project THEN entry.project
    ELSE IF field = K_tags THEN entry.tags
    ELSE IF field = K_status THEN entry.status
    ELSE IF field = K_notes THEN <<entry.notes>>
    ELSE IF field = K_started THEN <<entry.started>>
    ELSE <<entry.completed>>

\* the record in the file of that name
FileData(fs, filename) ==
    fs[CHOOSE i \in DOMAIN fs : fs[i].fullpath = filename].entry

\* the files of the other entries are as they were
OtherFilesKept(filename) ==
    /\ Len(files') = Len(files)
    /\ \A i \in DOMAIN files :
           files[i].fullpath # filename => files'[i] = files[i]

\* the step rewrote the file of uid and changed no more than 'updated' and
\* the field
ModifyFrame(uid, field) ==
    LET old == FileData(files, FileOf(uid))
        new == FileData(files', FileOf(uid))
    IN  /\ new.uid = old.uid
        /\ new.alias = old.alias
        /\ new.created = old.created
        /\ new.stopwatch = old.stopwatch
        /\ \A other \in ModifyFields \ {field} :
               Value(new, other) = Value(old, other)
        /\ OtherFilesKept(FileOf(uid))

\* pause and resume keep 'completed', the segments before the last one and
\* the start of the last one; resume keeps the last one too
TransitionFrame(uid) ==
    LET old == FileData(files, FileOf(uid))
        new == FileData(files', FileOf(uid))
        n == Len(old.stopwatch)
    IN  /\ new.completed = old.completed
        /\ Len(new.stopwatch) >= n
        /\ \A i \in 1..n :
               /\ new.stopwatch[i].start = old.stopwatch[i].start
               /\ i < n => new.stopwatch[i] = old.stopwatch[i]
        /\ outcome'.op = "resume" =>
               SubSeq(new.stopwatch, 1, n) = old.stopwatch

\* every modify with one field keeps the frame of that field
ModifyKeepsFrame ==
    \A alias \in ModifyAliases, args \in FieldArgs :
        (CmdModify(alias, args) /\ outcome'.res = "ok") =>
            ModifyFrame(outcome'.uid, Target(args))

\* every pause and resume that goes through keeps its frame
TransitionKeepsFrame ==
    (outcome'.op \in {"pause", "resume"} /\ outcome'.res = "ok") =>
        TransitionFrame(outcome'.uid)

\* C29: a modify that supplies exactly one of description, project, tags,
\* status, notes, started and completed writes a record that differs from
\* the stored one in 'updated' and that field only and writes no other
\* file; pause and resume leave 'completed', the earlier segments and the
\* start of the closed segment as they were.
C29_ModifyChangesOnlyTarget ==
    [][ModifyKeepsFrame /\ TransitionKeepsFrame]_vars

\* the same for a modify of an entry whose project is stored in lower case
C29_FrameOfLowerCaseProject ==
    [][/\ \A alias \in ModifyAliases, args \in FieldArgs :
              (/\ CmdModify(alias, args)
               /\ outcome'.res = "ok"
               /\ LET old == FileData(files, FileOf(outcome'.uid))
                  IN  old.project = Lower(old.project)) =>
                  ModifyFrame(outcome'.uid, Target(args))
       /\ TransitionKeepsFrame]_vars

----------------------------------------------------------------------------
(* Rejected transitions.                                                   *)

\* status, stopwatch and completed timestamp of the entries
Progress(te) ==
    [i \in DOMAIN te |->
        [uid |-> te[i].uid, status |-> te[i].status,
         stopwatch |-> te[i].stopwatch, completed |-> te[i].completed]]

\* the same for the records of the entry files
FileProgress(fs) ==
    [i \in DOMAIN fs |->
        [fullpath |-> fs[i].fullpath, kind |-> fs[i].kind,
         status |-> fs[i].entry.status, stopwatch |-> fs[i].entry.stopwatch,
         completed |-> fs[i].entry.completed]]

\* how pause, resume and stop turn a command down
Rejections == {"not found", "is not running", "is not paused"}

\* C30: when pause, resume or stop fails with 'not found', 'is not
\* running' or 'is not paused', the status, stopwatch and completed
\* timestamp of every entry are afterwards what they were, in the memory
\* and in the entry files.
C30_RejectedChangesNothing ==
    [][(/\ outcome'.op \in {"pause", "resume", "stop"}
        /\ outcome'.res \in Rejections) =>
           /\ Progress(time_entries') = Progress(time_entries)
           /\ FileProgress(files') = FileProgress(files)]_vars

\* a resume of a running entry was turned down in the shell
C30_Witness ==
    /\ interactive
    /\ outcome.op = "resume"
    /\ outcome.res = "is not paused"
    /\ \E i \in DOMAIN files : files[i].entry.status = S_running
    /\ \E i \in DOMAIN time_entries : time_entries[i].uid = outcome.uid

====
